---- MODULE Spec2Model ----
(***************************************************************************)
(* Model of cli-generator: the compiler pipeline (lexer, parser, semantic  *)
(* analysis, C++ code generation) and the argument parser that the         *)
(* generated C++ implements.                                               *)
(*                                                                         *)
(* Source texts, identifiers and argv tokens are TLA+ strings; spans are   *)
(* byte offsets <<start, end>> into the source text, as logos reports them.*)
(***************************************************************************)
EXTENDS Integers, Sequences, FiniteSets, TLC

----------------------------------------------------------------------------
(* Bounds of the model *)

\* longest argv handed to a generated parser
MaxArgs == 4
\* longest argv handed to the generated parser of the repeated-option program
MaxVecArgs == 6
\* deepest chain of Flatten fields the code generator is followed through
MaxFlattenDepth == 3
\* longest argv, program name apart, of the runs on one or two options
MaxNumArgs == 2

----------------------------------------------------------------------------
(* String helpers *)

Letters ==
    {"a","b","c","d","e","f","g","h","i","j","k","l","m","n","o","p","q","r",
     "s","t","u","v","w","x","y","z","A","B","C","D","E","F","G","H","I","J",
     "K","L","M","N","O","P","Q","R","S","T","U","V","W","X","Y","Z","_"}

Digits == {"0","1","2","3","4","5","6","7","8","9"}

Whitespace == {" ", "\t", "\n", "\f"}

\* s[from+1 .. to] for a byte range from..to (Rust's &source[from..to])
Slice(s, from, to) == SubSeq(s, from + 1, to)

StartsWith(s, p) == Len(s) >= Len(p) /\ SubSeq(s, 1, Len(p)) = p

RECURSIVE ReplaceUnderscore(_)
ReplaceUnderscore(s) ==
    IF s = "" THEN ""
    ELSE (IF Head(s) = "_" THEN "-" ELSE Head(s)) \o ReplaceUnderscore(Tail(s))

\* length of the longest prefix of s made of characters of cs
RECURSIVE RunLen(_, _)
RunLen(s, cs) ==
    IF s = "" \/ Head(s) \notin cs THEN 0 ELSE 1 + RunLen(Tail(s), cs)

----------------------------------------------------------------------------
(* Lexer *)

SymbolToken(c) ==
    CASE c = "{" -> "LBrace"
      [] c = "}" -> "RBrace"
      [] c = "#" -> "Pound"
      [] c = ":" -> "Colon"
      [] c = "," -> "Comma"
      [] c = "<" -> "LAngleBracket"
      [] c = ">" -> "RAngleBracket"
      [] c = "[" -> "LSquareBracket"
      [] c = "]" -> "RSquareBracket"
      [] c = "=" -> "Equals"
      [] OTHER -> "Error"

\* the #[token] words that contain digits; no identifier can be as long
NumericTypeWord(s) ==
    CASE StartsWith(s, "i16") -> "I16"
      [] StartsWith(s, "u16") -> "U16"
      [] StartsWith(s, "i32") -> "I32"
      [] StartsWith(s, "u32") -> "U32"
      [] StartsWith(s, "i64") -> "I64"
      [] StartsWith(s, "u64") -> "U64"
      [] StartsWith(s, "f32") -> "F32"
      [] StartsWith(s, "f64") -> "F64"
      [] OTHER -> "None"

\* a maximal run of [a-zA-Z_]: a keyword when it is exactly one, else Identifier
WordToken(w) ==
    CASE w = "struct" -> "Struct"
      [] w = "short" -> "Short"
      [] w = "long" -> "Long"
      [] w = "alias" -> "Alias"
      [] w = "flatten" -> "Flatten"
      [] w = "main" -> "Main"
      [] w = "subcommand" -> "SubCommand"
      [] w = "string" -> "String"
      [] w = "Vec" -> "Vec"
      [] w = "Optional" -> "Optional"
      [] w = "bool" -> "Bool"
      [] OTHER -> "Identifier"

Tok(token, start, end) == [token |-> token, span |-> <<start, end>>]

\* the spanned token stream of the rest of the source, rest starting at byte off
RECURSIVE Lex(_, _)
Lex(rest, off) ==
    IF rest = "" THEN <<>>
    ELSE IF Head(rest) \in Whitespace THEN Lex(Tail(rest), off + 1)
    ELSE LET run == RunLen(rest, Letters)
             num == NumericTypeWord(rest)
             len == IF num # "None" /\ run < 3 THEN 3
                    ELSE IF run > 0 THEN run
                    ELSE 1
             tok == IF num # "None" /\ run < 3 THEN num
                    ELSE IF run > 0 THEN WordToken(SubSeq(rest, 1, run))
                    ELSE SymbolToken(Head(rest))
         IN  <<Tok(tok, off, off + len)>>
                \o Lex(SubSeq(rest, len + 1, Len(rest)), off + len)

attribute_tokens ==
    {"Short", "Long", "Alias", "Equals", "Comma", "Flatten", "Main", "SubCommand"}

type_tokens ==
    {"String", "I16", "U16", "I32", "U32", "I64", "U64", "F32", "F64",
     "Vec", "Optional", "Bool", "Identifier"}

----------------------------------------------------------------------------
(* AST *)

Ty(k) == [k |-> k, inner |-> <<>>, name |-> ""]
VecOf(t) == [k |-> "Vec", inner |-> <<t>>, name |-> ""]
OptionalOf(t) == [k |-> "Optional", inner |-> <<t>>, name |-> ""]
StructRef(n) == [k |-> "Struct", inner |-> <<>>, name |-> n]

\* Tokens::as_field_type; the name of a struct reference is filled in by the parser
as_field_type(token) ==
    CASE token = "Vec" -> VecOf(Ty("I16"))
      [] token = "Optional" -> OptionalOf(Ty("I16"))
      [] token = "Identifier" -> StructRef("")
      [] OTHER -> Ty(token)

Attribute(ty, value, span) == [ty |-> ty, value |-> value, span |-> span]

\* Tokens::as_attribute_type; "unreachable" stands for the unreachable!() arm
as_attribute_type(token) ==
    CASE token = "Short" -> "Short"
      [] token = "Long" -> "Long"
      [] token = "Alias" -> "Alias"
      [] token = "Flatten" -> "Flatten"
      [] token = "Main" -> "Main"
      [] token = "SubCommand" -> "SubCommand"
      [] OTHER -> "unreachable"

\* Field::short_value: the value of the first Short attribute, '_' rendered as '-'
short_value(field) ==
    LET idx == {i \in DOMAIN field.attributes : field.attributes[i].ty = "Short"}
    IN  IF idx = {} THEN <<>>
        ELSE LET first == CHOOSE i \in idx : \A j \in idx : i <= j
             IN  IF field.attributes[first].value = <<>> THEN <<>>
                 ELSE <<ReplaceUnderscore(field.attributes[first].value[1])>>

\* Field::long_value: the value of the first Long attribute, '_' rendered as '-'
long_value(field) ==
    LET idx == {i \in DOMAIN field.attributes : field.attributes[i].ty = "Long"}
    IN  IF idx = {} THEN <<>>
        ELSE LET first == CHOOSE i \in idx : \A j \in idx : i <= j
             IN  IF field.attributes[first].value = <<>> THEN <<>>
                 ELSE <<ReplaceUnderscore(field.attributes[first].value[1])>>

----------------------------------------------------------------------------
(* Diagnostics: the label and message handed to chic and the span(s) blamed *)

NoSpan == <<0, 0>>

Diag(label, msg, span) ==
    [label |-> label, msg |-> msg, span |-> span, info |-> <<>>]

\* a faulty variant: the two locations of the diagnostic exchanged
DiagWithInfoExchanged(label, msg, span, info_span) ==
    [label |-> label, msg |-> msg, span |-> info_span, info |-> <<span>>]

DiagWithInfo(label, msg, span, info_span) ==
    [label |-> label, msg |-> msg, span |-> span, info |-> <<info_span>>]

----------------------------------------------------------------------------
(* Parser: every routine returns [st, pos, val, err] where st is "ok",     *)
(* "err" (a rendered diagnostic in err) or "panic" (an unreachable!() hit),*)
(* pos the index of the next unread token and val the value produced       *)

POk(pos, val) == [st |-> "ok", pos |-> pos, val |-> val, err |-> <<>>]
PErr(pos, d) == [st |-> "err", pos |-> pos, val |-> <<>>, err |-> <<d>>]
PPanic(pos) == [st |-> "panic", pos |-> pos, val |-> <<>>, err |-> <<>>]

\* length of the source without trailing whitespace
RECURSIVE TrimEndLen(_)
TrimEndLen(s) ==
    IF s = "" THEN 0
    ELSE IF SubSeq(s, Len(s), Len(s)) \in Whitespace
         THEN TrimEndLen(SubSeq(s, 1, Len(s) - 1))
         ELSE Len(s)

make_end_of_file_chic_error(src) ==
    Diag("Parser error", "Unexpected end of file",
         <<TrimEndLen(src) - 1, TrimEndLen(src)>>)

make_chic_error_for_lexer_error(span) ==
    Diag("Lexer error", "Unknown token", span)

\* Rust's `?` on a routine's result: an error or a panic of r ends the calling
\* routine with r, otherwise the routine continues as K with the value
Then(r, K(_)) == IF r.st # "ok" THEN r ELSE K(r)

\* a local binding: K with v for its parameter
With(v, K(_)) == K(v)

\* Parser::peek_token: val is <<>> at end of input, else <<token>>
peek_token(toks, pos) ==
    IF pos > Len(toks) THEN POk(pos, <<>>)
    ELSE IF toks[pos].token = "Error"
         THEN PErr(pos, make_chic_error_for_lexer_error(toks[pos].span))
         ELSE POk(pos, <<toks[pos]>>)

\* Parser::ensure_next_token_any_of (next_token and ensure_token_any_of inlined)
ensure_next_token_any_of(toks, src, pos, expected) ==
    Then(peek_token(toks, pos), LAMBDA next_token :
        IF next_token.val = <<>> THEN PErr(pos, make_end_of_file_chic_error(src))
        ELSE IF next_token.val[1].token \notin expected
             THEN PErr(pos + 1, Diag("Parser error", "Unexpected token",
                                     next_token.val[1].span))
             ELSE POk(pos + 1, next_token.val[1]))

ensure_next_token(toks, src, pos, token) ==
    ensure_next_token_any_of(toks, src, pos, {token})

TokenText(src, tok) == Slice(src, tok.span[1], tok.span[2])

\* "= identifier" after an attribute word that has been read up to pos
AttributeIdentifier(toks, src, pos) ==
    Then(ensure_next_token(toks, src, pos, "Equals"), LAMBDA eq :
    Then(ensure_next_token(toks, src, eq.pos, "Identifier"), LAMBDA id_token :
        POk(id_token.pos, <<TokenText(src, id_token.val)>>)))

\* the value part of one attribute: <<>> for None, <<text>> for Some(text)
AttributeValue(toks, src, pos, ty) ==
    IF ty \in {"Short", "Long"}
    THEN Then(peek_token(toks, pos), LAMBDA next_token :
            IF next_token.val = <<>> THEN PErr(pos, make_end_of_file_chic_error(src))
            ELSE IF next_token.val[1].token = "Equals"
                 THEN AttributeIdentifier(toks, src, pos)
                 ELSE POk(pos, <<>>))
    ELSE IF ty = "Alias" THEN AttributeIdentifier(toks, src, pos)
    ELSE POk(pos, <<>>)

\* the loop of Parser::parse_attributes, res the attributes collected so far
RECURSIVE AttributesLoop(_, _, _, _)
AttributesLoop(toks, src, pos, res) ==
    Then(peek_token(toks, pos), LAMBDA next_token :
        IF next_token.val = <<>> THEN PErr(pos, make_end_of_file_chic_error(src))
        ELSE IF next_token.val[1].token = "RSquareBracket" THEN POk(pos + 1, res)
        ELSE IF next_token.val[1].token = "Comma"
             THEN AttributesLoop(toks, src, pos + 1, res)
        ELSE IF next_token.val[1].token \notin attribute_tokens
             THEN PErr(pos + 1, Diag("Parser error", "Unexpected token",
                                     next_token.val[1].span))
        ELSE With(as_attribute_type(next_token.val[1].token), LAMBDA ty :
             IF ty = "unreachable" THEN PPanic(pos + 1)
             ELSE Then(AttributeValue(toks, src, pos + 1, ty), LAMBDA value :
                    AttributesLoop(toks, src, value.pos,
                        Append(res, Attribute(ty, value.val, next_token.val[1].span))))))

parse_attributes(toks, src, pos) ==
    Then(ensure_next_token(toks, src, pos, "Pound"), LAMBDA attributes_start :
    Then(ensure_next_token(toks, src, attributes_start.pos, "LSquareBracket"), LAMBDA lsq :
    Then(AttributesLoop(toks, src, lsq.pos, <<>>), LAMBDA res :
        IF res.val = <<>>
        THEN PErr(res.pos, Diag("Parse error", "Attributes cannot be empty",
                                attributes_start.val.span))
        ELSE res)))

Field(name, ty, name_span, type_span) ==
    [name |-> name, attributes |-> <<>>, ty |-> ty,
     name_span |-> name_span, type_span |-> type_span]

\* the optional trailing comma of a field
FieldComma(toks, pos, field) ==
    Then(peek_token(toks, pos), LAMBDA token :
        IF token.val # <<>> /\ token.val[1].token = "Comma"
        THEN POk(pos + 1, field)
        ELSE POk(pos, field))

\* the type of a struct reference carries the text of its token
NamedType(src, tok) ==
    IF tok.token = "Identifier" THEN StructRef(TokenText(src, tok))
    ELSE as_field_type(tok.token)

\* "<inner>" of a Vec or an Optional: the field takes the inner token's span
GenericField(toks, src, pos, id_token, ty) ==
    Then(ensure_next_token(toks, src, pos, "LAngleBracket"), LAMBDA la :
    Then(ensure_next_token_any_of(toks, src, la.pos, type_tokens), LAMBDA inner_ty_token :
    Then(ensure_next_token(toks, src, inner_ty_token.pos, "RAngleBracket"), LAMBDA ra :
        FieldComma(toks, ra.pos,
            Field(TokenText(src, id_token),
                  [ty EXCEPT !.inner = <<NamedType(src, inner_ty_token.val)>>],
                  id_token.span, inner_ty_token.val.span)))))

parse_field(toks, src, pos) ==
    Then(ensure_next_token(toks, src, pos, "Identifier"), LAMBDA id_token :
    Then(ensure_next_token(toks, src, id_token.pos, "Colon"), LAMBDA colon :
    Then(ensure_next_token_any_of(toks, src, colon.pos, type_tokens), LAMBDA ty_token :
        IF ty_token.val.token \in {"Vec", "Optional"}
        THEN GenericField(toks, src, ty_token.pos, id_token.val,
                          as_field_type(ty_token.val.token))
        ELSE FieldComma(toks, ty_token.pos,
                 Field(TokenText(src, id_token.val), NamedType(src, ty_token.val),
                       id_token.val.span, ty_token.val.span)))))

\* parse_struct's defaulting of Short and Long values from the field name
DefaultAttributes(attributes, field_name) ==
    [i \in DOMAIN attributes |->
        IF attributes[i].ty = "Short" /\ attributes[i].value = <<>>
        THEN [attributes[i] EXCEPT !.value = <<SubSeq(field_name, 1, 1)>>]
        ELSE IF attributes[i].ty = "Long" /\ attributes[i].value = <<>>
        THEN [attributes[i] EXCEPT !.value = <<field_name>>]
        ELSE attributes[i]]

\* the field loop of Parser::parse_struct; stops in front of "}" or at end of input
RECURSIVE FieldsLoop(_, _, _, _)
FieldsLoop(toks, src, pos, fields) ==
    Then(peek_token(toks, pos), LAMBDA token :
        IF token.val = <<>> \/ token.val[1].token = "RBrace" THEN POk(pos, fields)
        ELSE IF token.val[1].token = "Pound"
        THEN Then(parse_attributes(toks, src, pos), LAMBDA attributes :
             Then(parse_field(toks, src, attributes.pos), LAMBDA field :
                FieldsLoop(toks, src, field.pos,
                    Append(fields, [field.val EXCEPT !.attributes =
                        DefaultAttributes(attributes.val, field.val.name)]))))
        ELSE IF token.val[1].token = "Identifier"
        THEN Then(parse_field(toks, src, pos), LAMBDA field :
                FieldsLoop(toks, src, field.pos, Append(fields, field.val)))
        ELSE PPanic(pos))

parse_struct(toks, src, pos) ==
    Then(ensure_next_token(toks, src, pos, "Struct"), LAMBDA kw :
    Then(ensure_next_token(toks, src, kw.pos, "Identifier"), LAMBDA id_token :
    Then(ensure_next_token(toks, src, id_token.pos, "LBrace"), LAMBDA lb :
    Then(FieldsLoop(toks, src, lb.pos, <<>>), LAMBDA fields :
    Then(ensure_next_token(toks, src, fields.pos, "RBrace"), LAMBDA rb :
        POk(rb.pos, [attributes |-> <<>>, fields |-> fields.val,
                     name |-> TokenText(src, id_token.val),
                     name_span |-> id_token.val.span]))))))

\* the struct that must follow a top-level attribute block
AttributedStruct(toks, src, pos, attributes) ==
    Then(peek_token(toks, pos), LAMBDA parser_token :
        IF parser_token.val = <<>> THEN PErr(pos, make_end_of_file_chic_error(src))
        ELSE IF parser_token.val[1].token = "Struct"
        THEN Then(parse_struct(toks, src, pos), LAMBDA strukt :
                POk(strukt.pos, [strukt.val EXCEPT !.attributes = attributes]))
        ELSE PPanic(pos))

\* the loop of Parser::parse
RECURSIVE ParseLoop(_, _, _, _)
ParseLoop(toks, src, pos, structs) ==
    Then(peek_token(toks, pos), LAMBDA parser_token :
        IF parser_token.val = <<>> THEN POk(pos, structs)
        ELSE IF parser_token.val[1].token = "Pound"
        THEN Then(parse_attributes(toks, src, pos), LAMBDA attributes :
             Then(AttributedStruct(toks, src, attributes.pos, attributes.val), LAMBDA strukt :
                ParseLoop(toks, src, strukt.pos, Append(structs, strukt.val))))
        ELSE IF parser_token.val[1].token = "Struct"
        THEN Then(parse_struct(toks, src, pos), LAMBDA strukt :
                ParseLoop(toks, src, strukt.pos, Append(structs, strukt.val)))
        ELSE PPanic(pos))

\* Parser::new(source).parse(): val is the Spec's struct list
parse(src) == ParseLoop(Lex(src, 0), src, 1, <<>>)


----------------------------------------------------------------------------
(* Semantic analysis: results use the shape of the parser's, pos unused.   *)
(* A HashMap<&str, T> is a function from its keys.                         *)

EmptyMap == [k \in {} |-> 0]

\* HashMap::insert
MapInsert(m, key, v) == (key :> v) @@ m

\* the loop of check_for_multiple_struct_definitions from struct i on
RECURSIVE MultipleStructsLoop(_, _, _)
MultipleStructsLoop(structs, i, id_to_struct) ==
    IF i > Len(structs) THEN POk(0, id_to_struct)
    ELSE IF structs[i].name \in DOMAIN id_to_struct
         THEN PErr(0, DiagWithInfo("Multiple type definition", "Redefinition of type",
                                   structs[i].name_span,
                                   id_to_struct[structs[i].name].name_span))
         ELSE MultipleStructsLoop(structs, i + 1,
                                  MapInsert(id_to_struct, structs[i].name, structs[i]))

check_for_multiple_struct_definitions(structs) ==
    MultipleStructsLoop(structs, 1, EmptyMap)

RECURSIVE MultipleFieldsLoop(_, _, _)
MultipleFieldsLoop(fields, i, name_to_field) ==
    IF i > Len(fields) THEN POk(0, <<>>)
    ELSE IF fields[i].name \in DOMAIN name_to_field
         THEN PErr(0, DiagWithInfo("Multiple field definition", "Redefinition of field",
                                   fields[i].name_span,
                                   name_to_field[fields[i].name].name_span))
         ELSE MultipleFieldsLoop(fields, i + 1,
                                 MapInsert(name_to_field, fields[i].name, fields[i]))

check_for_multiple_field_definitions(fields) ==
    MultipleFieldsLoop(fields, 1, EmptyMap)

\* a faulty variant: the diagnostic blames the field's name
UndefinedTypeAtName(field) ==
    PErr(0, Diag("Semantic error", "Undefined type", field.name_span))

UndefinedType(field) ==
    PErr(0, Diag("Semantic error", "Undefined type", field.type_span))

\* one iteration of check_for_undefined_types
UndefinedTypeOfField(identifier_to_struct, field) ==
    IF field.ty.k = "Vec"
    THEN LET inner == field.ty.inner[1]
         IN  IF inner.k = "Vec" THEN PPanic(0)
             ELSE IF inner.k = "Struct" /\ inner.name \notin DOMAIN identifier_to_struct
                  THEN UndefinedType(field)
                  ELSE POk(0, <<>>)
    ELSE IF field.ty.k = "Struct" /\ field.ty.name \notin DOMAIN identifier_to_struct
         THEN UndefinedType(field)
         ELSE POk(0, <<>>)

RECURSIVE UndefinedTypesLoop(_, _, _)
UndefinedTypesLoop(identifier_to_struct, fields, i) ==
    IF i > Len(fields) THEN POk(0, <<>>)
    ELSE Then(UndefinedTypeOfField(identifier_to_struct, fields[i]), LAMBDA ok :
            UndefinedTypesLoop(identifier_to_struct, fields, i + 1))

check_for_undefined_types(identifier_to_struct, fields) ==
    UndefinedTypesLoop(identifier_to_struct, fields, 1)

Min(a, b) == IF a <= b THEN a ELSE b
Max(a, b) == IF a >= b THEN a ELSE b

\* the span of the last attribute of type ty, Span::default() when there is none
LastAttributeSpan(attributes, ty) ==
    LET idx == {i \in DOMAIN attributes : attributes[i].ty = ty}
    IN  IF idx = {} THEN NoSpan
        ELSE attributes[CHOOSE i \in idx : \A j \in idx : j <= i].span

check_struct_attributes(strukt) ==
    LET attrs == strukt.attributes
        bad == {i \in DOMAIN attrs : attrs[i].ty \in {"Short", "Long", "Alias", "Flatten"}}
        both == {i \in DOMAIN attrs : attrs[i].ty \in {"Main", "SubCommand"}}
        main_span == LastAttributeSpan(attrs, "Main")
        subcommand_span == LastAttributeSpan(attrs, "SubCommand")
    IN  IF bad # {}
        THEN PErr(0, Diag("Semantic error", "Invalid attribute",
                          attrs[CHOOSE i \in bad : \A j \in bad : i <= j].span))
        ELSE IF (\E i \in DOMAIN attrs : attrs[i].ty = "Main")
                /\ (\E i \in DOMAIN attrs : attrs[i].ty = "SubCommand")
        THEN PErr(0, Diag("Semantic error", "Invalid attribute combination",
                          <<Min(main_span[1], subcommand_span[1]),
                            Max(main_span[2], subcommand_span[2])>>))
        ELSE POk(0, <<>>)

\* a faulty variant: Flatten accepted on a field of any type
FlattenTargetAny(ty) == "ok"

\* is the Flatten attribute on a field of this type rejected, accepted or a panic
FlattenTarget(ty) ==
    IF ty.k = "Vec"
    THEN (IF ty.inner[1].k = "Vec" THEN "panic"
          ELSE IF ty.inner[1].k = "Struct" THEN "ok" ELSE "err")
    ELSE IF ty.k = "Struct" THEN "ok" ELSE "err"

\* a faulty variant: no Short value is ever found taken
ShortNeverTaken(shorts, value) == FALSE

\* shorts.contains_key(value)
ShortTaken(shorts, value) == value \in DOMAIN shorts

\* check_field_attributes from attribute a of field f on; shorts, longs and
\* aliases map a value to the field that declared it
RECURSIVE FieldAttributesLoop(_, _, _, _, _, _)
FieldAttributesLoop(fields, f, a, shorts, longs, aliases) ==
    IF f > Len(fields) THEN POk(0, <<>>)
    ELSE IF a > Len(fields[f].attributes)
         THEN FieldAttributesLoop(fields, f + 1, 1, shorts, longs, aliases)
    ELSE LET attribute == fields[f].attributes[a]
             value == attribute.value[1]
         IN  CASE attribute.ty = "Short" ->
                    IF ShortTaken(shorts, value)
                    THEN PErr(0, DiagWithInfo("Invalid field attribute usage",
                            "There's already a field with the same starting character",
                            attribute.span, shorts[value].name_span))
                    ELSE FieldAttributesLoop(fields, f, a + 1,
                            MapInsert(shorts, value, fields[f]), longs, aliases)
               [] attribute.ty = "Long" ->
                    IF value \in DOMAIN longs /\ value \in DOMAIN aliases
                    THEN PErr(0, DiagWithInfo("Invalid field attribute usage",
                            "There's already a field with the same long name or alias",
                            attribute.span, longs[value].name_span))
                    ELSE FieldAttributesLoop(fields, f, a + 1,
                            shorts, MapInsert(longs, value, fields[f]), aliases)
               [] attribute.ty = "Alias" ->
                    IF value \in DOMAIN aliases /\ value \in DOMAIN longs
                    THEN PErr(0, DiagWithInfo("Invalid field attribute usage",
                            "There's already a field with the same alias or long name",
                            attribute.span, aliases[value].name_span))
                    ELSE FieldAttributesLoop(fields, f, a + 1,
                            shorts, longs, MapInsert(aliases, value, fields[f]))
               [] attribute.ty = "Flatten" ->
                    IF FlattenTarget(fields[f].ty) = "panic" THEN PPanic(0)
                    ELSE IF FlattenTarget(fields[f].ty) = "err"
                    THEN PErr(0, Diag("Invalid field attribute",
                            "Flatten should be used with a custom type", attribute.span))
                    ELSE FieldAttributesLoop(fields, f, a + 1, shorts, longs, aliases)
               [] OTHER ->
                    PErr(0, Diag("Semantic error", "Invalid field attribute",
                                 attribute.span))

check_field_attributes(fields) ==
    FieldAttributesLoop(fields, 1, 1, EmptyMap, EmptyMap, EmptyMap)

\* the four checks check_semantics runs on one struct, in its order
\* a faulty variant: the duplicate-field check runs before the undefined-type check
CheckStructFieldsFirst(identifier_to_struct, strukt) ==
    Then(check_for_multiple_field_definitions(strukt.fields), LAMBDA r2 :
    Then(check_for_undefined_types(identifier_to_struct, strukt.fields), LAMBDA r1 :
    Then(check_struct_attributes(strukt), LAMBDA r3 :
        check_field_attributes(strukt.fields))))

CheckStruct(identifier_to_struct, strukt) ==
    Then(check_for_undefined_types(identifier_to_struct, strukt.fields), LAMBDA r1 :
    Then(check_for_multiple_field_definitions(strukt.fields), LAMBDA r2 :
    Then(check_struct_attributes(strukt), LAMBDA r3 :
        check_field_attributes(strukt.fields))))

RECURSIVE CheckStructsLoop(_, _, _)
CheckStructsLoop(identifier_to_struct, structs, i) ==
    IF i > Len(structs) THEN POk(0, identifier_to_struct)
    ELSE Then(CheckStruct(identifier_to_struct, structs[i]), LAMBDA ok :
            CheckStructsLoop(identifier_to_struct, structs, i + 1))

\* check_semantics: val is SpecMetadata.identifier_to_struct
check_semantics(structs) ==
    Then(check_for_multiple_struct_definitions(structs), LAMBDA identifier_to_struct :
        CheckStructsLoop(identifier_to_struct.val, structs, 1))


----------------------------------------------------------------------------
(* Code generation.  The emitted C++ is kept as data: per struct the       *)
(* statements of its parse method, the table of is_option and the lines of *)
(* help.  A statement is a record [op, ...] that the run of the generated  *)
(* program interprets.                                                     *)

IntegerTypes == {"I16", "U16", "I32", "U32", "I64", "U64"}
FloatTypes == {"F32", "F64"}

\* a faulty variant: the preamble never asks is_option
StmtPreambleNoOptionCheck(struct_name, is_string) ==
    [op |-> "preamble", struct_name |-> struct_name, is_string |-> TRUE, k |-> ""]

\* write_parse_value_option_preamble: ++args; ++i; if (i == argc [|| is_option]) exit
StmtPreamble(struct_name, is_string) ==
    [op |-> "preamble", struct_name |-> struct_name, is_string |-> is_string, k |-> ""]
\* the statement that declares arg_res; k is the type parsed or the struct called
StmtParse(op, k) ==
    [op |-> op, struct_name |-> "", is_string |-> FALSE, k |-> k]

\* write_parse_field_type: the statements emitted for a field of type ty
RECURSIVE write_parse_field_type(_, _)
write_parse_field_type(struct_name, ty) ==
    (IF ty.k \in {"Vec", "Bool"} THEN <<>>
     ELSE <<StmtPreamble(struct_name, ty.k = "String")>>)
    \o
    (CASE ty.k = "String" -> <<StmtParse("string", "String")>>
       [] ty.k \in IntegerTypes \cup FloatTypes -> <<StmtParse("numeric", ty.k)>>
       [] ty.k = "Bool" -> <<StmtParse("bool", "Bool")>>
       [] ty.k = "Struct" -> <<StmtParse("struct", ty.name)>>
       [] ty.k \in {"Vec", "Optional"} -> write_parse_field_type(struct_name, ty.inner[1]))

\* one "else if" of the parse loop: the spellings compared with arg, the
\* statements that produce arg_res, the assignment and the seen index
Branch(matchers, struct_name, field, parents, mandatory_field_to_index) ==
    [matchers |-> matchers,
     body |-> write_parse_field_type(struct_name, field.ty),
     push_back |-> field.ty.k = "Vec",
     ty |-> field.ty,
     destination |-> parents,
     field |-> field.name,
     seen |-> IF field.name \in DOMAIN mandatory_field_to_index
              THEN <<mandatory_field_to_index[field.name]>> ELSE <<>>]

\* the struct a Flatten field expands to: <<>> where the code hits unreachable!()
FlattenType(identifier_to_struct, ty) ==
    IF ty.k = "Vec" /\ ty.inner[1].k = "Struct" /\ ty.inner[1].name \in DOMAIN identifier_to_struct
    THEN <<identifier_to_struct[ty.inner[1].name]>>
    ELSE IF ty.k = "Struct" /\ ty.name \in DOMAIN identifier_to_struct
    THEN <<identifier_to_struct[ty.name]>>
    ELSE <<>>

\* the emitter state threaded through write_parse_fields_r: the branches
\* written so far, the parents stack, and how the emission ended
\* ("ok", "panic", or "diverged" past MaxFlattenDepth)
Emit(branches, parents, st) == [branches |-> branches, parents |-> parents, st |-> st]

RECURSIVE write_parse_fields_r(_, _, _, _, _, _)
RECURSIVE EmitFields(_, _, _, _, _, _, _)
RECURSIVE EmitAttributes(_, _, _, _, _, _, _, _)

\* the attribute loop of one field from attribute a on; val is
\* <<emitter state, match_fields_buffer>>
EmitAttributes(struct_name, field, a, ids, m2i, depth, em, buffer) ==
    IF em.st # "ok" \/ a > Len(field.attributes) THEN <<em, buffer>>
    ELSE LET attr == field.attributes[a]
         IN  CASE attr.ty = "Short" ->
                    EmitAttributes(struct_name, field, a + 1, ids, m2i, depth, em,
                        Append(buffer, "-" \o short_value(field)[1]))
               [] attr.ty = "Long" ->
                    EmitAttributes(struct_name, field, a + 1, ids, m2i, depth, em,
                        Append(buffer, "--" \o long_value(field)[1]))
               [] attr.ty = "Alias" ->
                    EmitAttributes(struct_name, field, a + 1, ids, m2i, depth, em,
                        Append(buffer, "--" \o ReplaceUnderscore(attr.value[1])))
               [] attr.ty = "Flatten" ->
                    IF FlattenType(ids, field.ty) = <<>>
                    THEN <<Emit(em.branches, em.parents, "panic"), buffer>>
                    ELSE EmitAttributes(struct_name, field, a + 1, ids, m2i, depth,
                            write_parse_fields_r(struct_name,
                                FlattenType(ids, field.ty)[1].fields, ids,
                                Emit(em.branches, Append(em.parents, field.name), "ok"),
                                m2i, depth + 1),
                            buffer)
               [] OTHER -> <<Emit(em.branches, em.parents, "panic"), buffer>>

\* the field loop of write_parse_fields_r from field f on
EmitFields(struct_name, fields, f, ids, m2i, depth, em) ==
    IF em.st # "ok" \/ f > Len(fields) THEN em
    ELSE With(EmitAttributes(struct_name, fields[f], 1, ids, m2i, depth, em, <<>>), LAMBDA r :
            IF r[1].st # "ok" THEN r[1]
            ELSE IF r[2] = <<>>
            THEN EmitFields(struct_name, fields, f + 1, ids, m2i, depth, r[1])
            ELSE EmitFields(struct_name, fields, f + 1, ids, m2i, depth,
                     Emit(Append(r[1].branches,
                                 Branch(r[2], struct_name, fields[f], r[1].parents, m2i)),
                          r[1].parents, "ok")))

\* a faulty variant: the stack is left as it is
PopNothing(stack) == stack

\* Vec::pop
Pop(stack) == IF stack = <<>> THEN <<>> ELSE SubSeq(stack, 1, Len(stack) - 1)

write_parse_fields_r(struct_name, fields, ids, em, m2i, depth) ==
    IF depth > MaxFlattenDepth THEN Emit(em.branches, em.parents, "diverged")
    ELSE Then(EmitFields(struct_name, fields, 1, ids, m2i, depth, em), LAMBDA r :
            Emit(r.branches, Pop(r.parents), "ok"))

write_parse_fields(struct_name, fields, ids, m2i) ==
    write_parse_fields_r(struct_name, fields, ids, Emit(<<>>, <<"res">>, "ok"), m2i, 0)

\* a faulty variant: the names in the reverse of declaration order
RECURSIVE MandatoryFieldsReversed(_)
MandatoryFieldsReversed(fields) ==
    IF fields = <<>> THEN <<>>
    ELSE MandatoryFieldsReversed(Tail(fields))
         \o (IF Head(fields).ty.k = "Optional" THEN <<>> ELSE <<Head(fields).name>>)

\* the fields of a struct that are not Optional, in declaration order
RECURSIVE MandatoryFields(_)
MandatoryFields(fields) ==
    IF fields = <<>> THEN <<>>
    ELSE (IF Head(fields).ty.k = "Optional" THEN <<>> ELSE <<Head(fields).name>>)
         \o MandatoryFields(Tail(fields))

\* a faulty variant: every mandatory field is given the first slot
MandatoryIndexFirst(names) == [n \in {names[i] : i \in DOMAIN names} |-> 0]

\* mandatory_field_name_to_index: a later insert of the same name replaces the index
MandatoryIndex(names) ==
    [n \in {names[i] : i \in DOMAIN names} |->
        (CHOOSE i \in DOMAIN names : names[i] = n /\ \A j \in DOMAIN names : names[j] = n => j <= i) - 1]

HasMain(strukt) == \E i \in DOMAIN strukt.attributes : strukt.attributes[i].ty = "Main"

\* the fields a Flatten field of the struct adds in Struct::get_fields:
\* st is "panic" for the unreachable!() arm
FlattenedOf(field, ids) ==
    LET flat == {i \in DOMAIN field.attributes : field.attributes[i].ty = "Flatten"}
    IN  IF flat = {} THEN POk(0, <<>>)
        ELSE IF field.ty.k = "Vec"
        THEN (IF field.ty.inner[1].k = "Vec" THEN PPanic(0)
              ELSE IF field.ty.inner[1].k = "Struct"
                   THEN (IF field.ty.inner[1].name \in DOMAIN ids
                         THEN POk(0, ids[field.ty.inner[1].name].fields) ELSE PPanic(0))
                   ELSE POk(0, <<>>))
        ELSE IF field.ty.k = "Struct"
        THEN (IF field.ty.name \in DOMAIN ids
              THEN POk(0, ids[field.ty.name].fields) ELSE PPanic(0))
        ELSE POk(0, <<>>)

RECURSIVE FlattenedFields(_, _)
FlattenedFields(fields, ids) ==
    IF fields = <<>> THEN POk(0, <<>>)
    ELSE Then(FlattenedOf(Head(fields), ids), LAMBDA h :
         Then(FlattenedFields(Tail(fields), ids), LAMBDA t :
            POk(0, h.val \o t.val)))

\* Struct::get_fields: own fields chained with the flattened-in ones
get_fields(strukt, ids) ==
    Then(FlattenedFields(strukt.fields, ids), LAMBDA flat :
        POk(0, strukt.fields \o flat.val))

\* the valid_options table of write_is_option_method
RECURSIVE ValidOptions(_)
ValidOptions(fields) ==
    IF fields = <<>> THEN <<>>
    ELSE LET f == Head(fields)
         IN  (IF short_value(f) # <<>> THEN <<"-" \o short_value(f)[1]>> ELSE <<>>)
             \o (IF long_value(f) # <<>> THEN <<"--" \o long_value(f)[1]>> ELSE <<>>)
             \o ValidOptions(Tail(fields))

\* one line of write_struct_help_method per field: the spellings shown and
\* whether a value placeholder follows
RECURSIVE HelpLines(_)
HelpLines(fields) ==
    IF fields = <<>> THEN <<>>
    ELSE LET f == Head(fields)
         IN  <<[field |-> f.name, short |-> short_value(f), long |-> long_value(f),
                placeholder |-> f.ty.k # "Bool"]>>
             \o HelpLines(Tail(fields))

\* what generate_cli writes for one struct
GenerateStruct(strukt, ids) ==
    With(MandatoryFields(strukt.fields), LAMBDA names :
    With(write_parse_fields(strukt.name, strukt.fields, ids, MandatoryIndex(names)), LAMBDA em :
    With(get_fields(strukt, ids), LAMBDA gf :
        [st |-> IF gf.st # "ok" THEN "panic" ELSE em.st,
         name |-> strukt.name,
         fields |-> strukt.fields,
         main |-> HasMain(strukt),
         mandatory_field_names |-> names,
         branches |-> em.branches,
         parents_after |-> em.parents,
         valid_options |-> IF gf.st = "ok" THEN ValidOptions(gf.val) ELSE <<>>,
         help |-> IF gf.st = "ok" THEN HelpLines(gf.val) ELSE <<>>])))

\* generate_cli: the generated structs in declaration order
generate_cli(structs, ids) == [i \in DOMAIN structs |-> GenerateStruct(structs[i], ids)]


----------------------------------------------------------------------------
(* C library conversions of the generated program.  A long long is four    *)
(* 16-bit limbs, least significant first (two's complement), so that the   *)
(* 64-bit range and the truncating static_cast are exact.                  *)

LimbBase == 2 ^ 16

DigitVal(c) ==
    CASE c = "0" -> 0 [] c = "1" -> 1 [] c = "2" -> 2 [] c = "3" -> 3 [] c = "4" -> 4
      [] c = "5" -> 5 [] c = "6" -> 6 [] c = "7" -> 7 [] c = "8" -> 8 [] c = "9" -> 9

ZeroLimbs == <<0, 0, 0, 0>>
LLONG_MAX == <<65535, 65535, 65535, 32767>>
LLONG_MIN == <<0, 0, 0, 32768>>
LLONG_MAX_DIGITS == "9223372036854775807"
LLONG_MIN_DIGITS == "9223372036854775808"

\* limbs * 10 + d, modulo 2^64
Mul10Add(l, d) ==
    LET t1 == l[1] * 10 + d
        t2 == l[2] * 10 + (t1 \div LimbBase)
        t3 == l[3] * 10 + (t2 \div LimbBase)
        t4 == l[4] * 10 + (t3 \div LimbBase)
    IN  <<t1 % LimbBase, t2 % LimbBase, t3 % LimbBase, t4 % LimbBase>>

\* two's complement negation modulo 2^64
Negate(l) ==
    LET t1 == (LimbBase - 1 - l[1]) + 1
        t2 == (LimbBase - 1 - l[2]) + (t1 \div LimbBase)
        t3 == (LimbBase - 1 - l[3]) + (t2 \div LimbBase)
        t4 == (LimbBase - 1 - l[4]) + (t3 \div LimbBase)
    IN  <<t1 % LimbBase, t2 % LimbBase, t3 % LimbBase, t4 % LimbBase>>

RECURSIVE Magnitude(_, _)
Magnitude(ds, acc) ==
    IF ds = "" THEN acc ELSE Magnitude(Tail(ds), Mul10Add(acc, DigitVal(Head(ds))))

RECURSIVE StripZeros(_)
StripZeros(ds) == IF ds # "" /\ Head(ds) = "0" THEN StripZeros(Tail(ds)) ELSE ds

\* a > b for digit strings of equal length
RECURSIVE DigitsGreater(_, _)
DigitsGreater(a, b) ==
    IF a = "" THEN FALSE
    ELSE IF DigitVal(Head(a)) # DigitVal(Head(b)) THEN DigitVal(Head(a)) > DigitVal(Head(b))
    ELSE DigitsGreater(Tail(a), Tail(b))

CSpace == {" ", "\t", "\n", "\f", "\r"}

RECURSIVE SkipSpace(_)
SkipSpace(s) == IF s # "" /\ Head(s) \in CSpace THEN SkipSpace(Tail(s)) ELSE s

\* std::strtoll(s, nullptr, 10): the value, and whether errno is set to ERANGE
strtoll(s) ==
    LET t == SkipSpace(s)
        neg == t # "" /\ Head(t) = "-"
        u == IF t # "" /\ Head(t) \in {"+", "-"} THEN Tail(t) ELSE t
        ds == StripZeros(SubSeq(u, 1, RunLen(u, Digits)))
        limit == IF neg THEN LLONG_MIN_DIGITS ELSE LLONG_MAX_DIGITS
        erange == Len(ds) > Len(limit) \/ (Len(ds) = Len(limit) /\ DigitsGreater(ds, limit))
    IN  [erange |-> erange,
         value |-> IF erange THEN (IF neg THEN LLONG_MIN ELSE LLONG_MAX)
                   ELSE IF neg THEN Negate(Magnitude(ds, ZeroLimbs))
                   ELSE Magnitude(ds, ZeroLimbs)]

\* number of 16-bit limbs of the C++ integer type of an integer FieldType
TypeLimbs(k) ==
    CASE k \in {"I16", "U16"} -> 1
      [] k \in {"I32", "U32"} -> 2
      [] k \in {"I64", "U64"} -> 4

\* static_cast<T>(long long): keeps the low bits
static_cast(k, limbs) == SubSeq(limbs, 1, TypeLimbs(k))

IsZero(limbs) == \A j \in DOMAIN limbs : limbs[j] = 0

\* the number a short digit string denotes; 9999 stands for anything longer
RECURSIVE DigitsValue(_)
DigitsValue(ds) ==
    IF ds = "" THEN 0
    ELSE IF Len(StripZeros(ds)) > 4 THEN 9999
    ELSE 10 * DigitsValue(SubSeq(ds, 1, Len(ds) - 1)) + DigitVal(SubSeq(ds, Len(ds), Len(ds)))

\* a > b for digit strings read as decimal fractions 0.a and 0.b
RECURSIVE FractionGreater(_, _)
FractionGreater(a, b) ==
    IF a = "" THEN FALSE
    ELSE IF b = "" THEN StripZeros(a) # ""
    ELSE IF Head(a) # Head(b) THEN DigitVal(Head(a)) > DigitVal(Head(b))
    ELSE FractionGreater(Tail(a), Tail(b))

\* the exponent part of a decimal floating numeral: [given, neg, digits]
ExponentPart(rest) ==
    With(Len(rest) >= 2 /\ Head(rest) \in {"e", "E"} /\ SubSeq(rest, 2, 2) \in {"+", "-"},
         LAMBDA signed :
    With(IF rest = "" \/ Head(rest) \notin {"e", "E"} THEN ""
         ELSE IF signed THEN SubSeq(rest, 3, 2 + RunLen(SubSeq(rest, 3, Len(rest)), Digits))
         ELSE SubSeq(rest, 2, 1 + RunLen(Tail(rest), Digits)), LAMBDA ds :
        [given |-> ds # "", neg |-> signed /\ SubSeq(rest, 2, 2) = "-", digits |-> ds]))

\* the largest finite value and the least decimal exponent of a normal value
\* of a binary floating type: the digits of the maximum, its decimal exponent
DBL == [max_digits |-> "17976931348623157", max_exp |-> 308, min_exp |-> 0 - 308]
FLT == [max_digits |-> "34028234663852886", max_exp |-> 38, min_exp |-> 0 - 38]

\* the letters of "infinity" and "nan", whatever their case
LowerCase(c) ==
    CASE c = "I" -> "i" [] c = "N" -> "n" [] c = "F" -> "f" [] c = "A" -> "a"
      [] c = "T" -> "t" [] c = "Y" -> "y" [] OTHER -> c

RECURSIVE StartsWithNoCase(_, _)
StartsWithNoCase(s, word) ==
    \/ word = ""
    \/ s # "" /\ LowerCase(Head(s)) = Head(word) /\ StartsWithNoCase(Tail(s), Tail(word))

\* std::strtof / std::strtod on a decimal floating numeral or an inf / nan
\* form (hexadecimal forms are not read): the numeral read, sign kept, is the
\* value; zero when nothing or only zeros were read.  A magnitude above the
\* largest finite value gives HUGE_VAL with ERANGE; a magnitude below the
\* normal range is reported with ERANGE as glibc does.
FloatParts(s) ==
    With(SkipSpace(s), LAMBDA t :
    With(IF t # "" /\ Head(t) \in {"+", "-"} THEN Tail(t) ELSE t, LAMBDA u :
    With(SubSeq(u, RunLen(u, Digits) + 1, Len(u)), LAMBDA rest :
    With(IF rest # "" /\ Head(rest) = "."
         THEN SubSeq(rest, 2, 1 + RunLen(Tail(rest), Digits)) ELSE "", LAMBDA frac :
        [neg |-> t # "" /\ Head(t) = "-",
         unsigned |-> u,
         int |-> StripZeros(SubSeq(u, 1, RunLen(u, Digits))),
         frac |-> frac,
         none |-> RunLen(u, Digits) = 0 /\ frac = "",
         after |-> IF rest # "" /\ Head(rest) = "."
                   THEN SubSeq(rest, 2 + Len(frac), Len(rest)) ELSE rest]))))

\* the value is 0.sig * 10^(scale + 1), sig starting with a non-zero digit
FloatScale(p, ex) ==
    With(IF ex.neg THEN 0 - DigitsValue(ex.digits) ELSE DigitsValue(ex.digits), LAMBDA exp :
        IF p.int # "" THEN exp + Len(p.int) - 1
        ELSE exp - (Len(p.frac) - Len(StripZeros(p.frac))) - 1)

FloatClass(p, limits) ==
    With(IF p.none THEN ExponentPart("") ELSE ExponentPart(p.after), LAMBDA ex :
    With(FloatScale(p, ex), LAMBDA scale :
    With(p.int = "" /\ StripZeros(p.frac) = "", LAMBDA zero :
        [ex |-> ex,
         zero |-> zero,
         over |-> ~zero /\ (scale > limits.max_exp
                            \/ (scale = limits.max_exp
                                /\ FractionGreater(StripZeros(p.int \o p.frac),
                                                   limits.max_digits))),
         under |-> ~zero /\ scale < limits.min_exp])))

FloatValue(p, c) ==
    IF StartsWithNoCase(p.unsigned, "inf") \/ StartsWithNoCase(p.unsigned, "nan")
    THEN [erange |-> FALSE, zero |-> FALSE,
          value |-> (IF p.neg THEN "-" ELSE "")
                    \o (IF StartsWithNoCase(p.unsigned, "inf") THEN "inf" ELSE "nan")]
    ELSE [erange |-> c.over \/ c.under,
          zero |-> c.zero,
          value |-> IF c.zero THEN "0"
                    ELSE IF c.over THEN (IF p.neg THEN "-" ELSE "") \o "HUGE_VAL"
                    ELSE (IF p.neg THEN "-" ELSE "") \o p.int \o "." \o p.frac
                         \o (IF c.ex.given
                             THEN "e" \o (IF c.ex.neg THEN "-" ELSE "") \o c.ex.digits
                             ELSE "")]

FloatConversion(s, limits) ==
    With(FloatParts(s), LAMBDA p :
    With(FloatClass(p, limits), LAMBDA c : FloatValue(p, c)))

strtod(s) == FloatConversion(s, DBL)

\* a faulty variant: overflow of the float range goes unreported
strtofUnchecked(s) == [FloatConversion(s, FLT) EXCEPT !.erange = FALSE]

strtof(s) == FloatConversion(s, FLT)

\* the limbs of a small non-negative number as a value of integer type k
IntOf(k, n) == static_cast(k, <<n % LimbBase, n \div LimbBase, 0, 0>>)


----------------------------------------------------------------------------
(* Inputs: the spec file given to the compiler, and for the run of the     *)
(* generated program the struct whose parse is called ("" when the program *)
(* is only compiled) and the tokens its argv is made of                    *)

Input(source, entry, toks, len) ==
    [source |-> source, entry |-> entry, toks |-> toks, len |-> len]

\* the example of the README and of the end-to-end tests
SrcArgs ==
    "struct Args { #[short, long] name: string, #[long] count: Optional<i32> }"

SrcCalc ==
    "#[main] struct Calc { #[long] n: i32, #[short] v: bool }"

SrcNums ==
    "struct Nums { #[long] n: Vec<i32> }"

SrcFlags ==
    "struct Flags { #[short] v: Vec<bool>, #[long] names: Vec<string> }"

SrcOuter ==
    "struct Inner { #[short] a: bool, #[short] b: Optional<bool> }\n"
    \o "struct Outer { #[long] inner: Inner, #[short] b: Optional<bool> }"

SrcApp ==
    "struct Net { #[short, long] host: string, #[long, alias = p_n] port: u16 }\n"
    \o "#[main] struct App { #[flatten] net: Net, #[long = help] usage: bool }"

\* integer fields narrower than long long, and floating fields
SrcInts ==
    "#[main] struct Ints { #[long] a: i16, #[long] b: u16 }"

SrcFloats ==
    "#[main] struct Floats { #[long] x: f64, #[long] y: f32 }"

\* a flattened-in field with the name of a field of the host struct
SrcSameName ==
    "struct Net { #[long] name: string }\n"
    \o "struct Host { #[flatten] net: Net, #[short] name: string }"

RunInputs ==
    { Input(SrcSameName, "Host", {"--name", "-n", "x"}, MaxNumArgs),
      Input(SrcInts, "Ints", {"--a", "--b", "70000", "-1", "7"}, MaxNumArgs),
      Input(SrcFloats, "Floats", {"--x", "--y", "2.5", "abc", "1e999", "4e38", "nan"}, MaxNumArgs),
      Input(SrcArgs, "Args", {"--name", "x", "--count", "5", "-h", "--bogus"}, MaxArgs),
      Input(SrcCalc, "Calc", {"--n", "0", "5", "abc", "-v"}, MaxArgs),
      Input(SrcNums, "Nums", {"--n", "1", "2", "3"}, MaxVecArgs),
      Input(SrcFlags, "Flags", {"-v", "--names", "x"}, MaxArgs),
      Input(SrcOuter, "Outer", {"--inner", "-a", "-b", "x"}, MaxArgs),
      Input(SrcApp, "App", {"-h", "--host", "--help", "--p-n", "7", "x"}, MaxArgs) }

\* spec files whose field types name a struct that is not defined
SrcUndefinedBare ==
    "struct A { #[long] x: Nope }"

SrcUndefinedInVec ==
    "struct D { #[short] a: bool, #[long] r: Vec<Missing> }\n"
    \o "struct E { #[long] d: D }"

SrcUndefinedInOptional ==
    "struct A { #[long] x: Optional<Nope> }"

SrcUndefinedLikeField ==
    "struct C { #[long] nope: Vec<nope> }"

\* spec files whose fields share option spellings
SrcLongTwice ==
    "struct A { #[long = x] a: bool, #[long = x] b: bool }"

SrcLongAlias ==
    "struct A { #[long] x: bool, #[short, alias = x] b: bool }"

SrcLongAliasLong ==
    "struct A { #[long = x, alias = x] a: bool, #[long = x] b: bool }"

SrcShortCollision ==
    "struct A { #[short] foo: bool, #[short] fizz: string }"

SrcShortOverride ==
    "struct A { #[short] foo: bool, #[short = b] fizz: string }"

\* a spec file that defines a struct twice
SrcStructTwice ==
    "struct A { #[short] a: bool }\nstruct B { b: bool }\nstruct A { #[short] c: bool }"

\* spec files with a Flatten attribute on each kind of field type
SrcFlattenString ==
    "struct A { #[flatten] s: string }"

SrcFlattenVecOfString ==
    "struct A { #[flatten] s: Vec<string> }"

SrcFlattenOptional ==
    "struct Config { #[short] v: bool }\nstruct A { #[flatten] c: Optional<Config> }"

SrcFlattenVec ==
    "struct Config { #[short] v: bool }\nstruct A { #[flatten] c: Vec<Config> }"

\* source texts the grammar does not derive
SrcTopLevelWord ==
    "struct A { #[short] a: bool }\nx"

SrcBodyToken ==
    "struct A { : }"

SrcAttributeThenWord ==
    "#[main] x"

SrcEqualsAttribute ==
    "struct A { #[= x] a: bool }"

SrcUnknownCharacter ==
    "struct A { #[short] a: bool $ }"

SrcEndOfInput ==
    "struct A { #[short] a: bool,   "

SrcEmptyAttributes ==
    "struct A { #[] a: bool }"

SrcVecOfVec ==
    "struct A { #[long] x: Vec<Vec> }"

SrcOptionalOfOptional ==
    "struct A { #[long] x: Optional<Optional> }"

\* a spec file with two levels of Flatten: A takes in B, which takes in C
SrcDeep ==
    "struct C { #[short] z: bool }\n"
    \o "struct B { #[flatten] c: C, #[short] y: bool }\n"
    \o "struct A { #[flatten] b: B, #[short] x: bool }"

\* spec files that fail more than one check
SrcRedefinedAndUndefined ==
    "struct A { #[long] x: Nope }\n"
    \o "struct A { #[short] y: bool }"

SrcUndefinedAndRefield ==
    "struct A { #[long] x: bool, #[long] x: Nope }"

SrcRefieldAndAttributes ==
    "#[long] struct A { #[short] foo: bool, #[short] fizz: string, #[long] foo: bool }"

SrcStructAndFieldAttributes ==
    "#[long] struct A { #[short] foo: bool, #[short] fizz: string }"

SrcLaterUndefined ==
    "struct A { #[short] foo: bool, #[short] fizz: string }\n"
    \o "struct B { #[long] x: Nope }"

\* spec files whose Flatten fields form a cycle
SrcFlattenSelf ==
    "struct A { #[flatten] a: A, #[short] x: bool }"

SrcFlattenEachOther ==
    "struct A { #[flatten] b: B, #[short] x: bool }\n"
    \o "struct B { #[flatten] a: A, #[short] y: bool }"

CompileSources ==
    { SrcFlattenSelf, SrcFlattenEachOther,
      SrcRedefinedAndUndefined, SrcUndefinedAndRefield, SrcRefieldAndAttributes,
      SrcStructAndFieldAttributes, SrcLaterUndefined,
      SrcUndefinedBare, SrcUndefinedInVec, SrcUndefinedInOptional, SrcUndefinedLikeField,
      SrcLongTwice, SrcLongAlias, SrcLongAliasLong, SrcShortCollision, SrcShortOverride,
      SrcStructTwice, SrcFlattenString, SrcFlattenVecOfString, SrcFlattenOptional,
      SrcFlattenVec, SrcTopLevelWord, SrcBodyToken, SrcAttributeThenWord,
      SrcEqualsAttribute, SrcUnknownCharacter, SrcEndOfInput, SrcEmptyAttributes,
      SrcVecOfVec, SrcOptionalOfOptional, SrcDeep }

CompileInputs == {Input(source, "", {}, 0) : source \in CompileSources}

Inputs == RunInputs \cup CompileInputs

\* every sequence over S of length at most n
SeqsUpTo(S, n) == UNION {[1..k -> S] : k \in 0..n}

----------------------------------------------------------------------------
(* State *)

VARIABLES
    input,      \* the spec file and the argv alphabet of this behaviour
    stage,      \* how far main() of the compiler got
    ast,        \* Spec.structs once parsed
    diag,       \* <<d>>: the diagnostic the compiler printed before exit(1)
    metadata,   \* SpecMetadata.identifier_to_struct once checked
    program,    \* the generated structs once generated
    argv,       \* the argument vector of the run of the generated program
    stack,      \* the activations of generated parse methods, innermost last
    status,     \* "none", "running", "exited" (exit called) or "returned"
    exit_code,  \* the argument of exit
    output,     \* what the generated program printed, in order
    result,     \* <<res>>: the value the outermost parse returned
    errno,      \* the C errno of the run: "0" or "ERANGE"
    examined    \* per argv position, the depths of the activations that took it
                \* as their current option (arg) or as a value

vars == <<input, stage, ast, diag, metadata, program, argv, stack, status,
          exit_code, output, result, errno, examined>>

compile_vars == <<input, stage, ast, diag, metadata, program>>
run_vars == <<argv, stack, status, exit_code, output, result, errno, examined>>

Init ==
    /\ input \in Inputs
    /\ stage = "start"
    /\ ast = <<>>
    /\ diag = <<>>
    /\ metadata = EmptyMap
    /\ program = <<>>
    /\ argv = <<>>
    /\ stack = <<>>
    /\ status = "none"
    /\ exit_code = 0
    /\ output = <<>>
    /\ result = <<>>
    /\ errno = "0"
    /\ examined = <<>>

----------------------------------------------------------------------------
(* The compiler: main() of src/main.rs, one action per pipeline stage *)

\* where main() is after a pipeline stage ended in st: an Err is printed and
\* the process exits with 1, a panic aborts it
StageAfter(st, next) ==
    IF st = "ok" THEN next ELSE IF st = "err" THEN "failed" ELSE "panicked"

\* Parser::new(&contents).parse()
Parse ==
    /\ stage = "start"
    /\ stage' = StageAfter(parse(input.source).st, "parsed")
    /\ ast' = parse(input.source).val
    /\ diag' = parse(input.source).err
    /\ UNCHANGED <<input, metadata, program>>
    /\ UNCHANGED run_vars

\* check_semantics(&spec)
CheckSemantics ==
    /\ stage = "parsed"
    /\ stage' = StageAfter(check_semantics(ast).st, "checked")
    /\ metadata' = (IF check_semantics(ast).st = "ok" THEN check_semantics(ast).val
                    ELSE metadata)
    /\ diag' = check_semantics(ast).err
    /\ UNCHANGED <<input, ast, program>>
    /\ UNCHANGED run_vars

\* generate::cpp::generate_cli(&spec, &metadata)
Generate ==
    /\ stage = "checked"
    /\ program' = generate_cli(ast, metadata)
    /\ stage' = (IF \E i \in DOMAIN program' : program'[i].st = "panic" THEN "panicked"
                 ELSE IF \E i \in DOMAIN program' : program'[i].st = "diverged"
                 THEN "diverged"
                 ELSE "generated")
    /\ UNCHANGED <<input, ast, diag, metadata>>
    /\ UNCHANGED run_vars


----------------------------------------------------------------------------
(* The generated program: values *)

\* the value of a member after "S res = {};" (value-initialisation); a struct
\* member is a function from its member names, followed MaxFlattenDepth deep
RECURSIVE DefaultValue(_, _)
DefaultRes(fields, depth) ==
    [n \in {fields[i].name : i \in DOMAIN fields} |->
        DefaultValue((CHOOSE i \in DOMAIN fields : fields[i].name = n), <<fields, depth>>)]

DefaultValue(i, ctx) ==
    LET ty == ctx[1][i].ty
        depth == ctx[2]
    IN  CASE ty.k = "String" -> ""
          [] ty.k \in IntegerTypes -> IntOf(ty.k, 0)
          [] ty.k \in FloatTypes -> "0"
          [] ty.k = "Bool" -> FALSE
          [] ty.k \in {"Vec", "Optional"} -> <<>>
          [] ty.k = "Struct" ->
                IF ty.name \in DOMAIN metadata /\ depth < MaxFlattenDepth
                THEN DefaultRes(metadata[ty.name].fields, depth + 1)
                ELSE EmptyMap

RECURSIVE GetPath(_, _)
GetPath(r, path) == IF path = <<>> THEN r ELSE GetPath(r[Head(path)], Tail(path))

RECURSIVE SetPath(_, _, _)
SetPath(r, path, v) ==
    IF Len(path) = 1 THEN [r EXCEPT ![path[1]] = v]
    ELSE [r EXCEPT ![Head(path)] = SetPath(r[Head(path)], Tail(path), v)]

Msg(msg, a, b) == [msg |-> msg, a |-> a, b |-> b]

\* the generated struct called name
StructNamed(name) == CHOOSE i \in DOMAIN program : program[i].name = name

\* S::is_option(token)
is_option(struct_name, token) ==
    LET t == program[StructNamed(struct_name)].valid_options
    IN  \E j \in DOMAIN t : t[j] = token

\* a faulty variant: no activation skips the program name
NewFrameNoSkip(e, argc, args) ==
    [struct |-> e, argc |-> argc, args |-> args, i |-> 0, arg |-> "", branch |-> 0,
     ip |-> 0, arg_res |-> <<>>, res |-> DefaultRes(program[e].fields, 0),
     seen |-> [k \in 1..Len(program[e].mandatory_field_names) |-> FALSE]]

\* a faulty variant: a Main struct skips the program name but keeps its count
NewFrameCountKept(e, argc, args) ==
    [NewFrameNoSkip(e, argc, args) EXCEPT !.args = IF program[e].main THEN args + 1 ELSE args]

\* the activation of program[e].parse(argc, args): "--argc; ++args;" for Main
NewFrame(e, argc, args) ==
    [struct |-> e,
     argc |-> IF program[e].main THEN argc - 1 ELSE argc,
     args |-> IF program[e].main THEN args + 1 ELSE args,
     i |-> 0,
     arg |-> "",
     branch |-> 0,
     ip |-> 0,
     arg_res |-> <<>>,
     res |-> DefaultRes(program[e].fields, 0),
     seen |-> [k \in 1..Len(program[e].mandatory_field_names) |-> FALSE]]

Top == stack[Len(stack)]
Depth == Len(stack)
ReplaceTop(f) == [stack EXCEPT ![Len(stack)] = f]

\* at the head of the for loop with an argument left: char *arg = args[0]
AtLoopHead ==
    /\ status = "running"
    /\ Top.ip = 0
    /\ Top.i # Top.argc
    /\ Top.args \in DOMAIN argv

\* past the last argument
AtLoopEnd ==
    /\ status = "running"
    /\ Top.ip = 0
    /\ Top.i = Top.argc

\* inside a matched branch, about to execute a statement with this op
AtStatement(op) ==
    /\ status = "running"
    /\ Top.ip > 0
    /\ Top.ip \in DOMAIN program[Top.struct].branches[Top.branch].body
    /\ program[Top.struct].branches[Top.branch].body[Top.ip].op = op

Statement == program[Top.struct].branches[Top.branch].body[Top.ip]

HelpTokens == {"-h", "--help"}

\* the else-if branches whose condition holds for token
Matching(g, token) ==
    {b \in DOMAIN g.branches :
        \E m \in DOMAIN g.branches[b].matchers : g.branches[b].matchers[m] = token}

Exit(code, msgs) ==
    /\ status' = "exited"
    /\ exit_code' = code
    /\ output' = output \o msgs

Took(pos) == [examined EXCEPT ![pos] = @ \cup {Depth}]

----------------------------------------------------------------------------
(* The generated program: steps of S::parse *)

\* user code calls the parse of a generated struct on an argv
StartRun ==
    /\ stage = "generated"
    /\ status = "none"
    /\ \E e \in DOMAIN program, seq \in SeqsUpTo(input.toks, input.len) :
          /\ input.entry = program[e].name
          /\ LET av == IF program[e].main THEN <<"prog">> \o seq ELSE seq
             IN  /\ argv' = av
                 /\ stack' = <<NewFrame(e, Len(av), 1)>>
                 /\ examined' = [k \in DOMAIN av |-> {}]
    /\ status' = "running"
    /\ UNCHANGED <<exit_code, output, result, errno>>
    /\ UNCHANGED compile_vars

\* if (strcmp("-h", arg) == 0 || strcmp("--help", arg) == 0) S::help();
ScanHelp ==
    /\ AtLoopHead
    /\ argv[Top.args] \in HelpTokens
    /\ Exit(0, <<Msg("help", program[Top.struct].name, "")>>)
    /\ examined' = Took(Top.args)
    /\ UNCHANGED <<argv, stack, result, errno>>
    /\ UNCHANGED compile_vars

\* a faulty variant: the field branches are tried before the help test
ScanMatchBeforeHelp ==
    /\ AtLoopHead
    /\ Matching(program[Top.struct], argv[Top.args]) # {}
    /\ stack' = ReplaceTop([Top EXCEPT
            !.arg = argv[Top.args],
            !.branch = CHOOSE b \in Matching(program[Top.struct], argv[Top.args]) :
                          \A c \in Matching(program[Top.struct], argv[Top.args]) : b <= c,
            !.ip = 1])
    /\ examined' = Took(Top.args)
    /\ UNCHANGED <<argv, status, exit_code, output, result, errno>>
    /\ UNCHANGED compile_vars

\* the first else-if whose strcmp chain matches arg is entered
ScanMatch ==
    /\ AtLoopHead
    /\ argv[Top.args] \notin HelpTokens
    /\ LET m == Matching(program[Top.struct], argv[Top.args])
       IN  /\ m # {}
           /\ stack' = ReplaceTop([Top EXCEPT !.arg = argv[Top.args],
                                              !.branch = CHOOSE b \in m : \A c \in m : b <= c,
                                              !.ip = 1])
    /\ examined' = Took(Top.args)
    /\ UNCHANGED <<argv, status, exit_code, output, result, errno>>
    /\ UNCHANGED compile_vars

\* a faulty variant: a token that matches nothing is skipped
ScanUnknownSkipped ==
    /\ AtLoopHead
    /\ argv[Top.args] \notin HelpTokens
    /\ Matching(program[Top.struct], argv[Top.args]) = {}
    /\ stack' = ReplaceTop([Top EXCEPT !.i = @ + 1, !.args = @ + 1])
    /\ examined' = Took(Top.args)
    /\ UNCHANGED <<argv, status, exit_code, output, result, errno>>
    /\ UNCHANGED compile_vars

\* else { printf("Unknown option '%s'\n", arg); exit(1); }
ScanUnknown ==
    /\ AtLoopHead
    /\ argv[Top.args] \notin HelpTokens
    /\ Matching(program[Top.struct], argv[Top.args]) = {}
    /\ Exit(1, <<Msg("Unknown option", argv[Top.args], "")>>)
    /\ examined' = Took(Top.args)
    /\ UNCHANGED <<argv, stack, result, errno>>
    /\ UNCHANGED compile_vars

\* ++args; ++i; if (i == argc [|| S::is_option(args[0])]) { printf; exit(1); }
ExecPreamble ==
    /\ AtStatement("preamble")
    /\ IF Top.i + 1 = Top.argc
          \/ (~Statement.is_string /\ is_option(Statement.struct_name, argv[Top.args + 1]))
       THEN /\ Exit(1, <<Msg("Expected value for option", Top.arg, "")>>)
            /\ UNCHANGED stack
       ELSE /\ stack' = ReplaceTop([Top EXCEPT !.args = @ + 1, !.i = @ + 1, !.ip = @ + 1])
            /\ UNCHANGED <<status, exit_code, output>>
    /\ UNCHANGED <<argv, result, errno, examined>>
    /\ UNCHANGED compile_vars

\* std::string arg_res = args[0];
ExecParseString ==
    /\ AtStatement("string")
    /\ stack' = ReplaceTop([Top EXCEPT !.arg_res = <<argv[Top.args]>>, !.ip = @ + 1])
    /\ examined' = Took(Top.args)
    /\ UNCHANGED <<argv, status, exit_code, output, result, errno>>
    /\ UNCHANGED compile_vars

\* what write_parse_numeric_field's statements compute from the value token:
\* arg_res, the errno the conversion leaves, and the messages of the checks
NumericParse(k, arg_value, arg, errno_before) ==
    LET conv == IF k \in IntegerTypes THEN strtoll(arg_value)
                ELSE IF k = "F32" THEN strtof(arg_value) ELSE strtod(arg_value)
        arg_res == IF k \in IntegerTypes THEN static_cast(k, conv.value) ELSE conv.value
        zero == IF k \in IntegerTypes THEN IsZero(arg_res) ELSE conv.zero
        errno_after == IF conv.erange THEN "ERANGE" ELSE errno_before
    IN  [arg_res |-> arg_res,
         errno |-> errno_after,
         failure |->
            IF errno_after = "ERANGE"
            THEN <<Msg("out of range for integer type", arg_value, arg)>>
            ELSE IF zero /\ arg # "0"
            THEN <<Msg("is not a valid integer", arg_value, arg)>>
            ELSE <<>>]

\* char* arg_value = args[0]; T arg_res = static_cast<T>(strto..(arg_value));
\* followed by the ERANGE check and the zero check
ExecParseNumeric ==
    /\ AtStatement("numeric")
    /\ LET r == NumericParse(Statement.k, argv[Top.args], Top.arg, errno)
       IN  /\ errno' = r.errno
           /\ IF r.failure # <<>>
              THEN /\ Exit(1, r.failure)
                   /\ UNCHANGED stack
              ELSE /\ stack' = ReplaceTop([Top EXCEPT !.arg_res = <<r.arg_res>>, !.ip = @ + 1])
                   /\ UNCHANGED <<status, exit_code, output>>
    /\ examined' = Took(Top.args)
    /\ UNCHANGED <<argv, result>>
    /\ UNCHANGED compile_vars

\* bool arg_res = true;
ExecParseBool ==
    /\ AtStatement("bool")
    /\ stack' = ReplaceTop([Top EXCEPT !.arg_res = <<TRUE>>, !.ip = @ + 1])
    /\ UNCHANGED <<argv, status, exit_code, output, result, errno, examined>>
    /\ UNCHANGED compile_vars

\* N arg_res = N::parse(argc - i, args);  the call
ExecParseStruct ==
    /\ AtStatement("struct")
    /\ stack' = Append(stack, NewFrame(StructNamed(Statement.k), Top.argc - Top.i, Top.args))
    /\ UNCHANGED <<argv, status, exit_code, output, result, errno, examined>>
    /\ UNCHANGED compile_vars

\* the value stored by "dest.field = arg_res;" into a member of type ty
Assigned(ty, v) == IF ty.k = "Optional" THEN <<v>> ELSE v

\* the member a branch writes: its destination without "res", then the field
MemberPath(branch) == Tail(branch.destination) \o <<branch.field>>

\* a faulty variant: a Vec field is assigned the element instead of appended to
StoreOverwrites(res, branch, v) ==
    IF branch.push_back
    THEN SetPath(res, MemberPath(branch), <<v>>)
    ELSE SetPath(res, MemberPath(branch), Assigned(branch.ty, v))

\* res after the assignment statement of the branch
Store(res, branch, v) ==
    IF branch.push_back
    THEN SetPath(res, MemberPath(branch), Append(GetPath(res, MemberPath(branch)), v))
    ELSE SetPath(res, MemberPath(branch), Assigned(branch.ty, v))

\* dest.field = arg_res; (or push_back) [mandatory_fields_seen[k] = true;]
\* and the end of the loop body: ++i, ++args
ExecStore ==
    /\ status = "running"
    /\ Top.ip > 0
    /\ Top.ip = Len(program[Top.struct].branches[Top.branch].body) + 1
    /\ LET branch == program[Top.struct].branches[Top.branch]
       IN  stack' = ReplaceTop([Top EXCEPT
                !.res = Store(@, branch, Top.arg_res[1]),
                !.seen = IF branch.seen = <<>> THEN @
                         ELSE [@ EXCEPT ![branch.seen[1] + 1] = TRUE],
                !.i = @ + 1, !.args = @ + 1,
                !.ip = 0, !.branch = 0, !.arg = "", !.arg_res = <<>>])
    /\ UNCHANGED <<argv, status, exit_code, output, result, errno, examined>>
    /\ UNCHANGED compile_vars

\* a faulty variant: the loop stops at the first unseen mandatory field
MissingFirstOnly(names, seen) ==
    IF \A k \in DOMAIN names : seen[k] THEN <<>>
    ELSE <<Msg("was required",
               names[CHOOSE k \in DOMAIN names :
                        ~seen[k] /\ \A j \in DOMAIN names : ~seen[j] => k <= j], "")>>

\* the messages of the loop over mandatory_field_names after the scan
Missing(names, seen) ==
    LET RECURSIVE From(_)
        From(k) == IF k > Len(names) THEN <<>>
                   ELSE (IF seen[k] THEN <<>> ELSE <<Msg("was required", names[k], "")>>)
                        \o From(k + 1)
    IN  From(1)

\* not_seen_any: one message per unseen mandatory field, then exit(1)
ReportMissing ==
    /\ AtLoopEnd
    /\ Missing(program[Top.struct].mandatory_field_names, Top.seen) # <<>>
    /\ Exit(1, Missing(program[Top.struct].mandatory_field_names, Top.seen))
    /\ UNCHANGED <<argv, stack, result, errno, examined>>
    /\ UNCHANGED compile_vars

\* return res;  to user code, or into the arg_res of the calling branch
ReturnValue ==
    /\ AtLoopEnd
    /\ Missing(program[Top.struct].mandatory_field_names, Top.seen) = <<>>
    /\ IF Depth = 1
       THEN /\ status' = "returned"
            /\ result' = <<Top.res>>
            /\ UNCHANGED stack
       ELSE /\ stack' = [SubSeq(stack, 1, Depth - 1) EXCEPT
                            ![Depth - 1].arg_res = <<Top.res>>, ![Depth - 1].ip = @ + 1]
            /\ UNCHANGED <<status, result>>
    /\ UNCHANGED <<argv, exit_code, output, errno, examined>>
    /\ UNCHANGED compile_vars

Next ==
    \/ Parse
    \/ CheckSemantics
    \/ Generate
    \/ StartRun
    \/ ScanHelp
    \/ ScanMatch
    \/ ScanUnknown
    \/ ExecPreamble
    \/ ExecParseString
    \/ ExecParseNumeric
    \/ ExecParseBool
    \/ ExecParseStruct
    \/ ExecStore
    \/ ReportMissing
    \/ ReturnValue

Spec == Init /\ [][Next]_vars

TypeOK ==
    /\ stage \in {"start", "parsed", "checked", "generated", "failed", "panicked", "diverged"}
    /\ status \in {"none", "running", "exited", "returned"}
    /\ exit_code \in {0, 1}
    /\ (status = "running" => stack # <<>>)

\* every read of args[0] at the loop head lies inside argv
LoopHeadInArgv ==
    (status = "running" /\ Top.ip = 0 /\ Top.i # Top.argc) => Top.args \in DOMAIN argv

----------------------------------------------------------------------------
(* Properties of the generated parse procedure and of semantic analysis.   *)
(* What a property expects is computed from the AST and from argv, not     *)
(* from the emitted statements.                                            *)

\* the innermost activation after a step
TopNext == stack'[Len(stack')]

\* the struct of the AST whose parse the innermost activation runs
TopStruct == ast[Top.struct]

\* the field the matched branch of the innermost activation assigns
MatchedType == program[Top.struct].branches[Top.branch].ty

\* the type of the value a field holds: the element type of a Vec or Optional
ElementType(ty) == IF ty.k \in {"Vec", "Optional"} THEN ty.inner[1] ELSE ty

\* indices of the mandatory fields an activation has not seen
Unseen(frame) == {k \in DOMAIN frame.seen : ~frame.seen[k]}

\* the name of the k-th field of the struct that is not Optional
NonOptionalName(strukt, k) ==
    LET idx == {i \in DOMAIN strukt.fields : strukt.fields[i].ty.k # "Optional"}
    IN  strukt.fields[CHOOSE i \in idx : Cardinality({j \in idx : j <= i}) = k].name

\* C1: once the arguments are exhausted, an activation with an unseen mandatory
\* field prints exactly one message per unseen mandatory field and exits 1;
\* the value is returned to the caller of parse only from the end of the
\* arguments with every mandatory field seen.
C1_MissingMandatoryFieldsReported ==
    [][ /\ (AtLoopEnd /\ Unseen(Top) # {}) =>
              /\ status' = "exited"
              /\ exit_code' = 1
              /\ Len(output') = Len(output) + Cardinality(Unseen(Top))
              /\ \A j \in DOMAIN output : output'[j] = output[j]
              /\ \A k \in Unseen(Top) :
                    \E j \in (Len(output) + 1)..Len(output') :
                        output'[j] = Msg("was required", NonOptionalName(TopStruct, k), "")
        /\ (status' = "returned" /\ status # "returned") =>
              /\ AtLoopEnd
              /\ Unseen(Top) = {}
              /\ result' = <<Top.res>>
      ]_vars

\* a run that ended reporting two missing mandatory fields
C1_Witness ==
    /\ status = "exited"
    /\ exit_code = 1
    /\ Len(output) = 2
    /\ Cardinality(Unseen(Top)) = 2
    /\ \A j \in DOMAIN output : output[j].msg = "was required"

\* about to execute the assignment of the matched branch
AtStore ==
    /\ status = "running"
    /\ Top.ip > 0
    /\ Top.ip = Len(program[Top.struct].branches[Top.branch].body) + 1

\* C2: when the value of a matched field is assigned, the scan stands on the
\* option token itself for a Bool field and on the token right after the
\* option token for any field that takes a value; and the README's struct
\* run on --name x --count 5 does not end in exit.
C2_OneValueTokenPerOption ==
    /\ AtStore =>
          IF MatchedType.k = "Bool" THEN argv[Top.args] = Top.arg
          ELSE IF ElementType(MatchedType).k = "Bool" THEN TRUE
          ELSE Top.args - 1 \in DOMAIN argv /\ argv[Top.args - 1] = Top.arg
    /\ (input.source = SrcArgs /\ argv = <<"--name", "x", "--count", "5">>)
          => status # "exited"

\* a numeral: one or more decimal digits
IsNumeral(s) == s # "" /\ RunLen(s, Digits) = Len(s)

\* the number a numeral denotes
RECURSIVE Decimal(_)
Decimal(s) ==
    IF s = "" THEN 0
    ELSE 10 * Decimal(SubSeq(s, 1, Len(s) - 1)) + DigitVal(SubSeq(s, Len(s), Len(s)))

\* C3: for an integer field a value token that is a numeral, "0" included, is
\* accepted with its value, and any other value token makes the program
\* print the invalid-integer message and exit 1.
C3_IntegerValueChecked ==
    [][ (AtStatement("numeric") /\ Statement.k \in IntegerTypes) =>
            IF IsNumeral(argv[Top.args])
            THEN /\ status' = "running"
                 /\ TopNext.arg_res = <<IntOf(Statement.k, Decimal(argv[Top.args]))>>
            ELSE /\ status' = "exited"
                 /\ exit_code' = 1
                 /\ output' = Append(output,
                        Msg("is not a valid integer", argv[Top.args], Top.arg))
      ]_vars

\* C4: no argument token is examined (taken as the current option or as a
\* value) both by a nested parse and by the scan that called it.
C4_NoTokenExaminedTwice ==
    \A k \in DOMAIN examined : Cardinality(examined[k]) <= 1

\* an option has just been matched and nothing of its branch has run
JustMatched == status = "running" /\ Top.ip = 1

\* the matched option is the last token of the activation's slice
NoTokenRemains == Top.i + 1 = Top.argc

\* the token after the matched option is recognised by is_option of the struct
NextIsOption ==
    /\ Top.args + 1 \in DOMAIN argv
    /\ is_option(program[Top.struct].name, argv[Top.args + 1])

NumericValue(ty) == ElementType(ty).k \in IntegerTypes \cup FloatTypes

\* a field whose option is followed by a value: not Bool and not Vec<bool>
TakesValue(ty) == ty.k # "Bool" /\ ~(ty.k = "Vec" /\ ty.inner[1].k = "Bool")

\* the step of a missing value: the message for the matched option, exit 1
MissingValueReported ==
    /\ status' = "exited"
    /\ exit_code' = 1
    /\ output' = Append(output, Msg("Expected value for option", Top.arg, ""))

\* a string field takes the next token, option-looking or not, as its value
StringTakesNextToken ==
    /\ (JustMatched /\ MatchedType.k = "String" /\ ~NoTokenRemains) =>
          /\ status' = "running"
          /\ TopNext.args = Top.args + 1
          /\ TopNext.ip = 2
    /\ (status = "running" /\ Top.ip = 2 /\ MatchedType.k = "String") =>
          /\ status' = "running"
          /\ TopNext.arg_res = <<argv[Top.args]>>

AttributeSpelling(attr) ==
    CASE attr.ty = "Short" -> {"-" \o ReplaceUnderscore(attr.value[1])}
      [] attr.ty \in {"Long", "Alias"} -> {"--" \o ReplaceUnderscore(attr.value[1])}
      [] OTHER -> {}

\* every short, long and alias spelling of the fields and, through Flatten
\* fields, of the fields flattened in
RECURSIVE KnownSpellings(_, _)
KnownSpellings(fields, depth) ==
    UNION { UNION { IF fields[f].attributes[a].ty = "Flatten"
                    THEN (IF depth < MaxFlattenDepth
                             /\ ElementType(fields[f].ty).name \in DOMAIN metadata
                          THEN KnownSpellings(
                                  metadata[ElementType(fields[f].ty).name].fields,
                                  depth + 1)
                          ELSE {})
                    ELSE AttributeSpelling(fields[f].attributes[a])
                  : a \in DOMAIN fields[f].attributes }
          : f \in DOMAIN fields }

\* C6: a scanned token that is neither -h nor --help nor a short, long or alias
\* spelling of the struct's own or flattened-in fields makes the program print
\* the unknown-option message with that token and exit 1, and nothing is
\* returned after an exit.
C6_UnknownOptionExits ==
    [][ /\ status # "exited"
        /\ (AtLoopHead /\ argv[Top.args] \notin {"-h", "--help"}
              /\ argv[Top.args] \notin KnownSpellings(TopStruct.fields, 0)) =>
              /\ status' = "exited"
              /\ exit_code' = 1
              /\ output' = Append(output, Msg("Unknown option", argv[Top.args], ""))
              /\ result' = <<>>
      ]_vars

\* the run of the README: --name x --bogus
C6_Witness ==
    /\ input.source = SrcArgs
    /\ argv = <<"--name", "x", "--bogus">>
    /\ status = "exited"
    /\ exit_code = 1
    /\ output = <<Msg("Unknown option", "--bogus", "")>>
    /\ result = <<>>

\* C7: whenever the scanned token is -h or --help, help is printed and the
\* process exits 0, whatever the fields and whatever was parsed before.
C7_HelpExitsZero ==
    [][ (AtLoopHead /\ argv[Top.args] \in {"-h", "--help"}) =>
            /\ status' = "exited"
            /\ exit_code' = 0
            /\ output' = Append(output, Msg("help", TopStruct.name, ""))
      ]_vars

\* help asked of a struct that spells a field -h and another --help, after a
\* field was parsed and with mandatory fields unseen
C7_Witness ==
    /\ input.source = SrcApp
    /\ status = "exited"
    /\ exit_code = 0
    /\ output = <<Msg("help", "App", "")>>
    /\ "-h" \in KnownSpellings(TopStruct.fields, 0)
    /\ "--help" \in KnownSpellings(TopStruct.fields, 0)
    /\ argv = <<"prog", "--host", "x", "-h">>
    /\ Top.res.net.host = "x"
    /\ Unseen(Top) # {}

\* the struct of the AST whose parse the run calls
EntryStruct == ast[CHOOSE i \in DOMAIN ast : ast[i].name = input.entry]

\* the field of the struct that a token spells
FieldSpelled(strukt, token) ==
    strukt.fields[CHOOSE f \in DOMAIN strukt.fields :
        \E a \in DOMAIN strukt.fields[f].attributes :
            token \in AttributeSpelling(strukt.fields[f].attributes[a])]

\* the element a value token stands for
ElementOf(ty, token) ==
    CASE ty.k = "String" -> token
      [] ty.k \in IntegerTypes -> IntOf(ty.k, Decimal(token))

\* the elements argv gives the Vec field called name, in encounter order,
\* reading argv from position k: an option of a Vec<bool> gives true and is
\* followed by the next option, any other option is followed by its value
RECURSIVE GivenFor(_, _, _, _)
GivenFor(strukt, av, k, name) ==
    IF k > Len(av) THEN <<>>
    ELSE IF ElementType(FieldSpelled(strukt, av[k]).ty).k = "Bool"
    THEN (IF FieldSpelled(strukt, av[k]).name = name THEN <<TRUE>> ELSE <<>>)
         \o GivenFor(strukt, av, k + 1, name)
    ELSE (IF FieldSpelled(strukt, av[k]).name = name
          THEN <<ElementOf(ElementType(FieldSpelled(strukt, av[k]).ty), av[k + 1])>>
          ELSE <<>>)
         \o GivenFor(strukt, av, k + 2, name)

\* C8: after a parse of a struct of Vec fields has returned, every Vec field
\* holds the elements given for its option in argv, in encounter order.
C8_VecFieldsAccumulate ==
    (status = "returned"
        /\ \A f \in DOMAIN EntryStruct.fields : EntryStruct.fields[f].ty.k = "Vec") =>
        \A f \in DOMAIN EntryStruct.fields :
            result[1][EntryStruct.fields[f].name]
                = GivenFor(EntryStruct, argv, 1, EntryStruct.fields[f].name)

\* --n 1 --n 2 --n 3 yields [1, 2, 3]
C8_Witness ==
    /\ input.source = SrcNums
    /\ argv = <<"--n", "1", "--n", "2", "--n", "3">>
    /\ status = "returned"
    /\ result[1].n = <<IntOf("I32", 1), IntOf("I32", 2), IntOf("I32", 3)>>

\* the struct names a field type refers to, bare or wrapped
RECURSIVE RefNames(_)
RefNames(ty) ==
    IF ty.k = "Struct" THEN {ty.name}
    ELSE IF ty.k \in {"Vec", "Optional"} THEN RefNames(ty.inner[1])
    ELSE {}

\* C9: in a spec that check_semantics accepted, every struct reference of a
\* field type, bare or wrapped, names a struct of the symbol table.
C9_AcceptedReferencesDefined ==
    stage \in {"checked", "generated", "diverged"} =>
        \A s \in DOMAIN ast : \A f \in DOMAIN ast[s].fields :
            RefNames(ast[s].fields[f].ty) \subseteq DOMAIN metadata

\* the token n places after the field's name token in the token stream
TokenAfterName(src, field, n) ==
    Lex(src, 0)[(CHOOSE t \in DOMAIN Lex(src, 0) : Lex(src, 0)[t].span = field.name_span) + n]

\* the blamed span is that of the struct-name token of the reference of field:
\* the token after "name :" for a bare reference, after "name : Vec <" in a Vec
BlamesReferenceOf(d, src, field) ==
    /\ field.ty.k \in {"Struct", "Vec"}
    /\ ElementType(field.ty).k = "Struct"
    /\ ElementType(field.ty).name \notin {ast[s].name : s \in DOMAIN ast}
    /\ d.span = TokenAfterName(src, field, IF field.ty.k = "Vec" THEN 4 ELSE 2).span
    /\ Slice(src, d.span[1], d.span[2]) = ElementType(field.ty).name
    /\ d.span # field.name_span
    /\ field.ty.k = "Vec" => d.span # TokenAfterName(src, field, 2).span

\* C10: an undefined-type diagnostic blames the span of the struct-name token
\* of an undefined reference (bare, or the X of Vec<X>), not the span of the
\* field name and not the span of the Vec keyword.
C10_UndefinedTypeBlamesReference ==
    \A j \in DOMAIN diag :
        diag[j].msg = "Undefined type" =>
            \E s \in DOMAIN ast : \E f \in DOMAIN ast[s].fields :
                BlamesReferenceOf(diag[j], input.source, ast[s].fields[f])

\* Vec<nope> in a field itself called nope: the second "nope" is blamed
C10_Witness ==
    /\ input.source = SrcUndefinedLikeField
    /\ stage = "failed"
    /\ diag # <<>>
    /\ diag[1].msg = "Undefined type"
    /\ Slice(input.source, diag[1].span[1], diag[1].span[2]) = "nope"
    /\ diag[1].span # ast[1].fields[1].name_span

\* the compiler accepted the spec: check_semantics returned Ok
Accepted == stage \in {"checked", "generated", "diverged"}

\* the resolved values a field declares with attributes of the given types
AttributeValues(field, tys) ==
    {field.attributes[a].value[1] :
        a \in {b \in DOMAIN field.attributes : field.attributes[b].ty \in tys}}

\* two different fields of the struct share a value of attributes of these types
SharedValue(strukt, tys) ==
    \E f, g \in DOMAIN strukt.fields :
        /\ f # g
        /\ AttributeValues(strukt.fields[f], tys)
               \cap AttributeValues(strukt.fields[g], tys) # {}

\* C11: in every struct of a spec that check_semantics accepted no two fields
\* share a resolved Long or Alias value, Long and Alias being one namespace
C11_LongAliasValuesDistinct ==
    Accepted => \A s \in DOMAIN ast : ~SharedValue(ast[s], {"Long", "Alias"})

\* the diagnostic of the short-collision check
ShortCollisionMessage == "There's already a field with the same starting character"

\* C12: no accepted spec has a struct in which two fields share a resolved
\* Short value; `foo` and `fizz` both deriving `f` are rejected with the
\* short-collision diagnostic, which blames the later Short attribute and names
\* the earlier field; with `#[short = b]` on one of them the spec is accepted.
C12_ShortValuesDistinct ==
    /\ Accepted => \A s \in DOMAIN ast : ~SharedValue(ast[s], {"Short"})
    /\ (input.source = SrcShortCollision /\ stage \notin {"start", "parsed"}) =>
            /\ stage = "failed"
            /\ diag = <<DiagWithInfo("Invalid field attribute usage", ShortCollisionMessage,
                                     ast[1].fields[2].attributes[1].span,
                                     ast[1].fields[1].name_span)>>
    /\ (input.source = SrcShortOverride) => stage \notin {"failed", "panicked"}

C12_Witness ==
    /\ input.source = SrcShortCollision
    /\ stage = "failed"
    /\ diag[1].msg = ShortCollisionMessage
    /\ AttributeValues(ast[1].fields[1], {"Short"}) = {"f"}
    /\ AttributeValues(ast[1].fields[2], {"Short"}) = {"f"}

\* indices of the structs of the parsed spec whose name an earlier struct has
Redefinitions == {j \in DOMAIN ast : \E i \in 1..(j - 1) : ast[i].name = ast[j].name}

\* C13: a spec in which two struct definitions have the same name is rejected
\* by check_semantics, and the diagnostic names the name span of the first
\* redefinition as primary location and the name span of the first definition
\* of that name as secondary location.
C13_StructRedefinitionRejected ==
    [][(stage = "parsed" /\ Redefinitions # {}) =>
        LET j == CHOOSE k \in Redefinitions : \A l \in Redefinitions : k <= l
            i == CHOOSE k \in 1..(j - 1) : ast[k].name = ast[j].name
        IN  /\ stage' = "failed"
            /\ Len(diag') = 1
            /\ diag'[1].label = "Multiple type definition"
            /\ diag'[1].span = ast[j].name_span
            /\ diag'[1].info = <<ast[i].name_span>>
            /\ diag'[1].span # diag'[1].info[1]]_vars

C13_Witness ==
    /\ input.source = SrcStructTwice
    /\ stage = "failed"
    /\ diag[1].msg = "Redefinition of type"
    /\ Slice(input.source, diag[1].span[1], diag[1].span[2]) = "A"
    /\ diag[1].span[1] > diag[1].info[1][1]

FlattenMessage == "Flatten should be used with a custom type"

\* a field type that is a StructRef or a Vec of a StructRef
CustomType(ty) ==
    \/ ty.k = "Struct"
    \/ (ty.k = "Vec" /\ ty.inner[1].k = "Struct")

\* <<s, f, a>> for every Flatten attribute of the parsed spec on a field whose
\* type is not a custom type
MisplacedFlattens ==
    {p \in UNION {UNION {{<<s, f, a>> : a \in DOMAIN ast[s].fields[f].attributes} :
                         f \in DOMAIN ast[s].fields} : s \in DOMAIN ast} :
        /\ ast[p[1]].fields[p[2]].attributes[p[3]].ty = "Flatten"
        /\ ~CustomType(ast[p[1]].fields[p[2]].ty)}

\* C14: check_semantics accepts no spec with a Flatten attribute on a field
\* whose type is neither StructRef nor Vec<StructRef>; Flatten on string, on
\* Vec<string> and on Optional<Config> fail with the invalid-flatten
\* diagnostic at that attribute, which is given for no other attribute; Flatten
\* on Config and on Vec<Config> is accepted.
C14_FlattenOnlyOnCustomTypes ==
    [][stage = "parsed" =>
        /\ MisplacedFlattens # {} => stage' = "failed"
        /\ (stage' = "failed" /\ diag'[1].msg = FlattenMessage) =>
                \E p \in MisplacedFlattens :
                    diag'[1].span = ast[p[1]].fields[p[2]].attributes[p[3]].span
        /\ input.source \in {SrcFlattenString, SrcFlattenVecOfString, SrcFlattenOptional} =>
                /\ MisplacedFlattens # {}
                /\ diag'[1].msg = FlattenMessage
        /\ input.source \in {SrcFlattenVec, SrcApp} =>
                /\ \E s \in DOMAIN ast : \E f \in DOMAIN ast[s].fields :
                    \E a \in DOMAIN ast[s].fields[f].attributes :
                        ast[s].fields[f].attributes[a].ty = "Flatten"
                /\ stage' = "checked"]_vars

C14_Witness ==
    /\ input.source = SrcFlattenOptional
    /\ stage = "failed"
    /\ diag[1].msg = FlattenMessage
    /\ ast[2].fields[1].ty.k = "Optional"
    /\ ast[2].fields[1].ty.inner[1].k = "Struct"

\* C15: parse() either returns a complete Spec, or returns Err with one
\* rendered diagnostic and no AST; it never panics.
C15_ParseReturnsSpecOrDiagnostic ==
    [][stage = "start" =>
        \/ stage' = "parsed" /\ diag' = <<>>
        \/ stage' = "failed" /\ Len(diag') = 1 /\ ast' = <<>>]_vars

\* a type a generic wrapper may hold: a primitive or a named StructRef
SingleLevel(ty) ==
    /\ ty.k \notin {"Vec", "Optional"}
    /\ (ty.k = "Struct" => ty.name # "")

\* C16: in every Spec parse() returned, the inner type of a Vec or an Optional
\* field type is a primitive or a StructRef with a non-empty name, never
\* another Vec or Optional.
C16_GenericWrappersSingleLevel ==
    \A s \in DOMAIN ast : \A f \in DOMAIN ast[s].fields :
        ast[s].fields[f].ty.k \in {"Vec", "Optional"} =>
            SingleLevel(ast[s].fields[f].ty.inner[1])

\* is the field a Flatten field of a defined struct
Flattens(field) ==
    /\ \E a \in DOMAIN field.attributes : field.attributes[a].ty = "Flatten"
    /\ ElementType(field.ty).name \in DOMAIN metadata

\* the names of the visible fields: the fields themselves and, through Flatten
\* fields at any depth, the fields of the structs flattened in
RECURSIVE VisibleFields(_, _)
VisibleFields(fields, depth) ==
    {fields[f].name : f \in DOMAIN fields}
    \cup UNION { IF Flattens(fields[f]) /\ depth < MaxFlattenDepth
                 THEN VisibleFields(metadata[ElementType(fields[f].ty).name].fields,
                                    depth + 1)
                 ELSE {}
               : f \in DOMAIN fields }

\* C17: the help text of every generated struct has a line for every visible
\* field, the fields flattened in through any number of Flatten levels included.
C17_HelpListsVisibleFields ==
    stage = "generated" =>
        \A s \in DOMAIN program :
            VisibleFields(ast[s].fields, 0)
                \subseteq {program[s].help[l].field : l \in DOMAIN program[s].help}

\* the spellings the else-if chain of a generated struct's parse compares arg with
MatchedSpellings(s) ==
    UNION {{program[s].branches[b].matchers[m] :
                m \in DOMAIN program[s].branches[b].matchers} :
           b \in DOMAIN program[s].branches}

\* C18: is_option of a generated struct is true for a token exactly when the
\* token is one of the spellings the same struct's parse matches for its own or
\* flattened-in fields.
C18_IsOptionAgreesWithParse ==
    stage = "generated" =>
        \A s \in DOMAIN program :
            \A token \in MatchedSpellings(s) \cup input.toks \cup {"-h", "--help"}
                         \cup {program[s].valid_options[j] : j \in DOMAIN program[s].valid_options} :
                is_option(program[s].name, token) <=> token \in MatchedSpellings(s)

\* the spellings of a field's Short, Long and Alias attributes in attribute order
RECURSIVE DeclaredSpellings(_, _)
DeclaredSpellings(field, a) ==
    IF a > Len(field.attributes) THEN <<>>
    ELSE (IF field.attributes[a].ty \in {"Short", "Long", "Alias"}
          THEN <<CHOOSE sp \in AttributeSpelling(field.attributes[a]) : TRUE>>
          ELSE <<>>)
         \o DeclaredSpellings(field, a + 1)

\* the fields that have an option, in declaration order, the fields a Flatten
\* field takes in standing at the place of that field: <<name, spellings>>
RECURSIVE DeclaredOptions(_, _)
DeclaredOptions(fields, depth) ==
    IF fields = <<>> THEN <<>>
    ELSE (IF Flattens(Head(fields)) /\ depth < MaxFlattenDepth
          THEN DeclaredOptions(metadata[ElementType(Head(fields).ty).name].fields, depth + 1)
          ELSE <<>>)
         \o (IF DeclaredSpellings(Head(fields), 1) # <<>>
             THEN <<<<Head(fields).name, DeclaredSpellings(Head(fields), 1)>>>>
             ELSE <<>>)
         \o DeclaredOptions(Tail(fields), depth)

\* the short and long spellings of the struct's own fields in declaration order
RECURSIVE OwnOptions(_)
OwnOptions(fields) ==
    IF fields = <<>> THEN <<>>
    ELSE [i \in 1..Len(short_value(Head(fields))) |-> "-" \o short_value(Head(fields))[i]]
         \o [i \in 1..Len(long_value(Head(fields))) |-> "--" \o long_value(Head(fields))[i]]
         \o OwnOptions(Tail(fields))

\* C19: what generate_cli writes is determined by the source text alone, and
\* the emitted structs, fields, mandatory-field names, match branches and
\* option lists stand in declaration order.
C19_OutputFollowsDeclarationOrder ==
    [][stage = "checked" =>
        /\ ast = parse(input.source).val
        /\ metadata = check_semantics(ast).val
        /\ program' = generate_cli(ast, metadata)
        /\ stage' = "generated" =>
            /\ Len(program') = Len(ast)
            /\ \A s \in DOMAIN ast :
                /\ program'[s].name = ast[s].name
                /\ program'[s].fields = ast[s].fields
                /\ \A k \in DOMAIN program'[s].mandatory_field_names :
                      program'[s].mandatory_field_names[k] = NonOptionalName(ast[s], k)
                /\ [b \in DOMAIN program'[s].branches |->
                        <<program'[s].branches[b].field, program'[s].branches[b].matchers>>]
                     = DeclaredOptions(ast[s].fields, 0)
                /\ SubSeq(program'[s].valid_options, 1, Len(OwnOptions(ast[s].fields)))
                     = OwnOptions(ast[s].fields)
                /\ [l \in 1..Len(ast[s].fields) |-> program'[s].help[l].field]
                     = [l \in 1..Len(ast[s].fields) |-> ast[s].fields[l].name]]_vars

C19_Witness ==
    /\ input.source = SrcApp
    /\ stage = "generated"
    /\ program[1].mandatory_field_names = <<"host", "port">>
    /\ program[2].valid_options = <<"--help", "-h", "--host", "--port">>
    /\ [b \in DOMAIN program[2].branches |-> program[2].branches[b].matchers]
         = <<<<"-h", "--host">>, <<"--port", "--p-n">>, <<"--help">>>>

\* C20: an activation of a struct without the Main attribute starts scanning
\* at the first argument it is given, with the argument count it is given; an
\* activation of the Main struct starts at the second one, with the count
\* reduced by one.
C20_MainSkipsProgramName ==
    [][Len(stack') = Len(stack) + 1 =>
        LET argc == IF stack = <<>> THEN Len(argv') ELSE Top.argc - Top.i
            args == IF stack = <<>> THEN 1 ELSE Top.args
            skip == IF HasMain(ast[TopNext.struct]) THEN 1 ELSE 0
        IN  /\ TopNext.i = 0
            /\ TopNext.ip = 0
            /\ TopNext.args = args + skip
            /\ TopNext.argc = argc - skip]_vars

C20_Witness ==
    /\ input.source = SrcCalc
    /\ argv = <<"prog", "--n", "5", "-v">>
    /\ status = "returned"
    /\ HasMain(ast[1])
    /\ examined[1] = {}
    /\ examined[2] = {1}
    /\ result[1].n = IntOf("I32", 5)

\* the positions of the struct's fields that are not Optional
MandatoryPositions(strukt) ==
    {f \in DOMAIN strukt.fields : strukt.fields[f].ty.k # "Optional"}

\* the matched branch of the innermost activation
MatchedBranch == program[Top.struct].branches[Top.branch]

\* C21: the seen table of every activation has one slot per non-Optional field
\* of its struct, and storing the value of the struct's own k-th non-Optional
\* field leaves slot k true.
C21_SeenSlotPerMandatoryField ==
    [][ /\ \A d \in DOMAIN stack :
              DOMAIN stack[d].seen = 1..Cardinality(MandatoryPositions(ast[stack[d].struct]))
        /\ (AtStore /\ MatchedBranch.destination = <<"res">> /\ MatchedType.k # "Optional") =>
              \A k \in DOMAIN Top.seen :
                  NonOptionalName(TopStruct, k) = MatchedBranch.field => TopNext.seen[k]
      ]_vars

C21_Witness ==
    /\ input.source = SrcCalc
    /\ status = "running"
    /\ argv = <<"prog", "-v", "--n", "5">>
    /\ Top.i = 1
    /\ Top.ip = 0
    /\ Top.seen = <<FALSE, TRUE>>
    /\ NonOptionalName(TopStruct, 2) = "v"


\* an optional sign followed by one or more decimal digits
SignedNumeral(s) ==
    /\ s # ""
    /\ IsNumeral(IF Head(s) \in {"+", "-"} THEN Tail(s) ELSE s)

\* the largest value of an integer type and the magnitude of its least value,
\* as digits without leading zeros
TypeMaxDigits(k) ==
    CASE k = "I16" -> "32767" [] k = "U16" -> "65535"
      [] k = "I32" -> "2147483647" [] k = "U32" -> "4294967295"
      [] k = "I64" -> "9223372036854775807" [] k = "U64" -> "18446744073709551615"

TypeMinDigits(k) ==
    CASE k = "I16" -> "32768" [] k = "I32" -> "2147483648"
      [] k = "I64" -> "9223372036854775808" [] OTHER -> ""

\* the number a signed numeral denotes is a value of integer type k
InTypeRange(k, s) ==
    LET neg == Head(s) = "-"
        ds == StripZeros(IF Head(s) \in {"+", "-"} THEN Tail(s) ELSE s)
        limit == IF neg THEN TypeMinDigits(k) ELSE TypeMaxDigits(k)
    IN  \/ Len(ds) < Len(limit)
        \/ Len(ds) = Len(limit) /\ ~DigitsGreater(ds, limit)

\* C22: for an integer field a value token denoting a number outside the
\* range of the field's declared type makes the program print the
\* out-of-range message and exit 1; nothing is stored for it.
C22_IntegerOutOfRangeRejected ==
    [][ ( /\ AtStatement("numeric") /\ Statement.k \in IntegerTypes
          /\ SignedNumeral(argv[Top.args])
          /\ ~InTypeRange(Statement.k, argv[Top.args]) ) =>
            /\ status' = "exited"
            /\ exit_code' = 1
            /\ output' = Append(output,
                   Msg("out of range for integer type", argv[Top.args], Top.arg))
            /\ result' = result
      ]_vars


\* a value token the floating conversions read nothing of
Unconvertible(s) ==
    /\ s # ""
    /\ Head(s) \notin Digits \cup {"+", "-", "."} \cup CSpace
    /\ ~StartsWithNoCase(s, "inf") /\ ~StartsWithNoCase(s, "nan")

\* a non-zero digit, then "e" and a numeral: the digit times that power of ten
PlainExponent(s) ==
    /\ Len(s) >= 3
    /\ Head(s) \in Digits \ {"0"}
    /\ SubSeq(s, 2, 2) = "e"
    /\ IsNumeral(SubSeq(s, 3, Len(s)))

\* a non-zero digit, then "." and a numeral
PlainFraction(s) ==
    /\ Len(s) >= 3
    /\ Head(s) \in Digits \ {"0"}
    /\ SubSeq(s, 2, 2) = "."
    /\ IsNumeral(SubSeq(s, 3, Len(s)))

\* FLT_MAX is 3.40282347e38 and DBL_MAX is 1.7976931348623157e308
TooLarge(k, s) ==
    LET e == DigitsValue(SubSeq(s, 3, Len(s)))
        max_exp == IF k = "F32" THEN 38 ELSE 308
        max_digit == IF k = "F32" THEN 3 ELSE 1
    IN  /\ PlainExponent(s)
        /\ e > max_exp \/ (e = max_exp /\ DigitVal(Head(s)) > max_digit)

FloatExit(msg) ==
    /\ status' = "exited"
    /\ exit_code' = 1
    /\ output' = Append(output, Msg(msg, argv[Top.args], Top.arg))

\* C23 as stated: a float field given any value token never terminates the
\* program with the out-of-range or the not-a-valid-integer message.
C23_FloatsNotValidated ==
    [][ (AtStatement("numeric") /\ Statement.k \in FloatTypes) =>
            /\ ~FloatExit("out of range for integer type")
            /\ ~FloatExit("is not a valid integer")
      ]_vars

\* C23: the two checks of integer fields are applied to float fields too: a
\* value token the conversion reads nothing of makes the program print the
\* not-a-valid-integer message and exit 1, one above the largest finite value
\* of the field's type makes it print the out-of-range message and exit 1,
\* and a non-zero numeral within the range is accepted without a message.
C23_FloatsValidated ==
    [][ (AtStatement("numeric") /\ Statement.k \in FloatTypes) =>
            /\ Unconvertible(argv[Top.args]) => FloatExit("is not a valid integer")
            /\ TooLarge(Statement.k, argv[Top.args]) =>
                   FloatExit("out of range for integer type")
            /\ ( \/ PlainFraction(argv[Top.args])
                 \/ PlainExponent(argv[Top.args]) /\ ~TooLarge(Statement.k, argv[Top.args])
                 \/ StartsWithNoCase(argv[Top.args], "nan") ) =>
                   status' = "running" /\ output' = output /\ TopNext.arg_res # <<>>
      ]_vars

C23_Witness ==
    /\ input.source = SrcFloats
    /\ argv = <<"prog", "--y", "4e38">>
    /\ status = "exited" /\ exit_code = 1
    /\ output = <<Msg("out of range for integer type", "4e38", "--y")>>


\* the field has an attribute that gives it a spelling on the command line
Spelled(field) ==
    \E a \in DOMAIN field.attributes : field.attributes[a].ty \in {"Short", "Long", "Alias"}

\* chain names Flatten fields, each of the struct the one before expands to,
\* and the struct the last one expands to declares a spelled field called name
RECURSIVE ChainLeads(_, _, _)
ChainLeads(fields, chain, name) ==
    IF chain = <<>>
    THEN \E f \in DOMAIN fields : fields[f].name = name /\ Spelled(fields[f])
    ELSE \E f \in DOMAIN fields :
            /\ fields[f].name = Head(chain)
            /\ Flattens(fields[f])
            /\ ChainLeads(metadata[ElementType(fields[f].ty).name].fields, Tail(chain), name)

\* C24: the destination of every generated branch is res followed by the
\* names of the Flatten fields on the chain that leads to the branch's field,
\* and the struct's own fields, those declared after a Flatten field
\* included, are written directly under res.
C24_DestinationFollowsFlattenChain ==
    stage = "generated" =>
        \A s \in DOMAIN program :
            /\ \A b \in DOMAIN program[s].branches :
                  LET branch == program[s].branches[b]
                  IN  /\ branch.destination # <<>>
                      /\ Head(branch.destination) = "res"
                      /\ ChainLeads(ast[s].fields, Tail(branch.destination), branch.field)
            /\ \A f \in DOMAIN ast[s].fields :
                  Spelled(ast[s].fields[f]) =>
                      \E b \in DOMAIN program[s].branches :
                          /\ program[s].branches[b].field = ast[s].fields[f].name
                          /\ program[s].branches[b].ty = ast[s].fields[f].ty
                          /\ program[s].branches[b].destination = <<"res">>

C24_Witness ==
    /\ stage = "generated"
    /\ input.source = SrcDeep
    /\ \E b1, b2, b3 \in DOMAIN program[3].branches :
          /\ b1 < b2 /\ b2 < b3
          /\ program[3].branches[b1].destination = <<"res", "b", "c">>
          /\ program[3].branches[b2].destination = <<"res", "b">>
          /\ program[3].branches[b3].destination = <<"res">>
          /\ program[3].branches[b3].field = "x"


\* the checks made per struct, numbered in the order of the claim: the four
\* checks of the first struct, then the four of the second, and so on
PerStructCheck(identifier_to_struct, n) ==
    LET strukt == ast[((n - 1) \div 4) + 1]
        which == (n - 1) % 4
    IN  CASE which = 0 -> check_for_undefined_types(identifier_to_struct, strukt.fields)
          [] which = 1 -> check_for_multiple_field_definitions(strukt.fields)
          [] which = 2 -> check_struct_attributes(strukt)
          [] which = 3 -> check_field_attributes(strukt.fields)

\* C25: the analysis ends as the first failing check ends, taking the
\* duplicate-struct check first and then, struct by struct in declaration
\* order, the undefined-type, duplicate-field, struct-attribute and
\* field-attribute checks; its diagnostic is that check's diagnostic.
C25_FirstFailingCheckDecides ==
    [][stage = "parsed" =>
        LET first == check_for_multiple_struct_definitions(ast)
        IN  IF first.st # "ok"
            THEN stage' = StageAfter(first.st, "checked") /\ diag' = first.err
            ELSE LET failing == {n \in 1..(4 * Len(ast)) :
                                    PerStructCheck(first.val, n).st # "ok"}
                 IN  IF failing = {}
                     THEN stage' = "checked" /\ diag' = <<>> /\ metadata' = first.val
                     ELSE LET n == CHOOSE k \in failing : \A l \in failing : k <= l
                          IN  /\ stage' = StageAfter(PerStructCheck(first.val, n).st, "checked")
                              /\ diag' = PerStructCheck(first.val, n).err
      ]_vars

C25_Witness ==
    /\ input.source = SrcUndefinedAndRefield
    /\ stage = "failed"
    /\ check_for_multiple_field_definitions(ast[1].fields).st = "err"
    /\ diag[1].msg = "Undefined type"


\* C26: code generation returns for every accepted spec file: the expansion
\* of Flatten fields is never followed without end, cycles of Flatten fields
\* included.
C26_GenerationTerminates ==
    [][stage = "checked" => stage' # "diverged"]_vars


\* C27: every entry of a generated struct's mandatory-field table has a
\* branch of the parse loop that sets its seen flag.
C27_MandatoryEntriesHaveBranch ==
    stage = "generated" =>
        \A s \in DOMAIN program :
            \A k \in DOMAIN program[s].mandatory_field_names :
                \E b \in DOMAIN program[s].branches :
                    program[s].branches[b].seen = <<k - 1>>


\* C28: once the spec file is parsed, neither the semantic analysis nor the
\* code generation ends in a panic.
C28_PipelineNeverPanics ==
    [][(stage = "parsed" \/ stage = "checked") => stage' # "panicked"]_vars


\* C29: a seen flag of a struct goes from false to true only when the branch
\* taken belongs to the struct's own mandatory field of that position; a
\* branch of a flattened-in field, which writes under a nested destination,
\* sets no seen flag of the host.
C29_SeenSetOnlyByOwnField ==
    [][AtStore =>
        \A k \in DOMAIN Top.seen :
            (TopNext.seen[k] /\ ~Top.seen[k]) =>
                /\ MatchedBranch.destination = <<"res">>
                /\ MatchedBranch.field = NonOptionalName(TopStruct, k)
      ]_vars


\* the activation is about to read its current token: at the loop head with
\* an argument left, at a conversion of the value, at the start of a nested parse
ReadsCurrent(f) ==
    \/ f.ip = 0 /\ f.i # f.argc
    \/ /\ f.ip > 0
       /\ f.ip \in DOMAIN program[f.struct].branches[f.branch].body
       /\ program[f.struct].branches[f.branch].body[f.ip].op \in {"string", "numeric", "struct"}

\* the activation is about to advance and read the token it advanced to
ReadsNext(f) ==
    /\ f.ip > 0
    /\ f.ip \in DOMAIN program[f.struct].branches[f.branch].body
    /\ program[f.struct].branches[f.branch].body[f.ip].op = "preamble"
    /\ ~program[f.struct].branches[f.branch].body[f.ip].is_string
    /\ f.i + 1 # f.argc

\* C30: the generated parse procedure reads no token outside its argument
\* slice: in every activation the index stays between 0 and argc, the slice
\* ends where argv ends, and at every read of a token the index is below
\* argc and the token read is one of argv.
C30_ReadsWithinSlice ==
    status = "running" =>
        \A d \in DOMAIN stack :
            LET f == stack[d]
            IN  /\ 0 <= f.i /\ f.i <= f.argc
                /\ f.args + (f.argc - f.i) = Len(argv) + 1
                /\ (d = Len(stack) /\ ReadsCurrent(f)) => f.i < f.argc /\ f.args \in DOMAIN argv
                /\ (d = Len(stack) /\ ReadsNext(f)) =>
                       f.i + 1 < f.argc /\ f.args + 1 \in DOMAIN argv

C30_Witness ==
    /\ input.source = SrcArgs
    /\ argv = <<"--count", "x", "5">>
    /\ AtStatement("numeric")
    /\ Top.i = 2 /\ Top.argc = 3 /\ Top.args = 3

====
